---- MODULE Spec2Model ----
(***************************************************************************)
(* Caves Of Crisis: the cave generator, the item scatter and the soft      *)
(* Bresenham field of view of core/map/map.py, with the callers that drive *)
(* them (core/entities/player.py, core/entities/dev_char.py, core/game.py) *)
(* and the inventory of core/entities/components/inventory.py.             *)
(*                                                                         *)
(* The specifications share the state of a Map:                            *)
(*   SpecVis   the game loop's visibility updates, moves, teleports and    *)
(*             the reveal operation on one generated grid;                 *)
(*   Spec      one generate_cave run, step by step;                        *)
(*   SpecDet   two generate_cave runs with the same seed and arguments,    *)
(*             step by step side by side;                                  *)
(*   SpecItems one generate_items_on_map pass, batch by batch;             *)
(*   SpecObj   the tile objects behind the cells, from Map(...) through    *)
(*             generate_cave, with place_item_at calls;                    *)
(*   SpecProbe get_tile_at_xy and can_move on any coordinate;              *)
(*   SpecMove  a movement attempt from where a teleport put the player;    *)
(*   SpecLoad  the generate_map_and_cave threads, the loading flag and the *)
(*             main loop's rendering and key events;                       *)
(*   SpecRegions one connect_floor_regions call, flood fill by flood fill; *)
(*   SpecRay   a visibility update of a viewer in a flooded corridor;      *)
(*   SpecInv   Inventory.add_item and Inventory.remove_item.               *)
(* Coordinates follow the source: map_data[y][x], row first.               *)
(***************************************************************************)
EXTENDS Integers, Sequences, FiniteSets, TLC

VARIABLES
    width, height,      \* Map.width, Map.height
    map_data,           \* Map.map_data: [row -> [column -> tile]]
    visible_map,        \* Map.visible_map, as the set of <<x, y>> that are True
    explored_map,       \* Map.explored_map, as the set of <<x, y>> that are True
    is_revealed,        \* Map.is_revealed
    player,             \* the player's x, y and view_radius
    turn,               \* position in one pass of Game.run: "update" or "event"
    frames,             \* passes of Game.run made so far
    status,             \* "ok", or the exception that ended the program
    cfg,                \* the arguments of the generate_cave call
    stage,              \* the step generate_cave is about to run
    smoothed,           \* smoothing passes made so far
    map_b,              \* map_data of a second, independent generate_cave run
    walkable_tiles,     \* generate_items_on_map: length of the shuffled tile list
    batch_start,        \* generate_items_on_map: the loop variable i
    placed_items,       \* generate_items_on_map: placed_items
    tile_items,         \* positions in the shuffled list whose tile got an item
    skipped,            \* item draws so far that produced no item
    reports,            \* generate_cave: the update_progress calls made so far
    tile_at,            \* which tile object each cell of map_data refers to
    items,              \* Tile.items of every tile object, as its length
    call,               \* the call under way or just made, with its arguments
    ret,                \* what that call returned
    inventory,          \* Inventory.items: item name -> list of stack quantities
    loading,            \* Game.loading
    thread,             \* where each generate_map_and_cave thread stands
    scan                \* the locals of a connect_floor_regions call

visVars == <<width, height, map_data, visible_map, explored_map, is_revealed,
             player, turn, frames, status>>

loopVars == <<visible_map, explored_map, is_revealed, player, turn, frames, status>>

genVars == <<cfg, stage, smoothed, map_b, reports>>

itemVars == <<walkable_tiles, batch_start, placed_items, tile_items, skipped>>

objVars == <<tile_at, items>>

callVars == <<call, ret, inventory>>

loadVars == <<loading, thread>>

regionVars == <<scan>>

restVars == <<objVars, callVars, loadVars, regionVars>>

vars == <<visVars, genVars, itemVars, restVars>>

-----------------------------------------------------------------------------
(* Bounds of the model *)

\* Largest view radius a character is given.
MaxRadius == 4
\* How far outside the grid a teleport may land.
TeleportMargin == 1
\* Passes of the game loop (visibility updates of Game.update) per behaviour.
MaxFrames == 2
\* Smoothing passes a generate_cave call may ask for: three passes wear a
\* lone 3x3 room down to nothing.
MaxSmooth == 3
\* Floor cells the noise fill leaves outside the rooms.
MaxNoiseFloor == 1
\* From each end of a region's coordinate list, how many entries a tunnel
\* endpoint is drawn from.
MaxPick == 1
\* Water pools and moss clusters started in one pass.
MaxPools == 1
MaxClusters == 1
\* Item draws of one scatter pass that produce no item.
MaxSkips == 1

-----------------------------------------------------------------------------
(* Tile catalog: core/map/tileset.py.  A cell of map_data holds the name of *)
(* its catalog tile; transparency is in tenths.                            *)

CAVE_WALL  == "CAVE_WALL"
CAVE_FLOOR == "CAVE_FLOOR"
MOSSY_WALL == "MOSSY_WALL"
WATER      == "WATER"

Tileset == {CAVE_WALL, CAVE_FLOOR, MOSSY_WALL, WATER}

\* A catalog whose water lets half of the light through.
TileThinWater(t) ==
    CASE t = CAVE_WALL  -> [blocked |-> TRUE,  transparency |-> 1,  tile_type |-> "WALL"]
      [] t = CAVE_FLOOR -> [blocked |-> FALSE, transparency |-> 10, tile_type |-> "FLOOR"]
      [] t = MOSSY_WALL -> [blocked |-> TRUE,  transparency |-> 0,  tile_type |-> "WALL"]
      [] t = WATER      -> [blocked |-> FALSE, transparency |-> 5,  tile_type |-> "WATER"]

\* The fields of a catalog tile that the map and the player read.
Tile(t) ==
    CASE t = CAVE_WALL  -> [blocked |-> TRUE,  transparency |-> 1,  tile_type |-> "WALL"]
      [] t = CAVE_FLOOR -> [blocked |-> FALSE, transparency |-> 10, tile_type |-> "FLOOR"]
      [] t = MOSSY_WALL -> [blocked |-> TRUE,  transparency |-> 0,  tile_type |-> "WALL"]
      [] t = WATER      -> [blocked |-> FALSE, transparency |-> 4,  tile_type |-> "WATER"]

Abs(n) == IF n < 0 THEN -n ELSE n

\* All cells of a w x h grid, as <<x, y>>.
Cells(w, h) == (0 .. w - 1) \X (0 .. h - 1)

InBounds(x, y, w, h) == 0 <= x /\ x < w /\ 0 <= y /\ y < h

\* A numpy index into an axis of length n: negative indices count from the
\* end, anything outside [-n, n) raises IndexError (here: -1).
NpIndex(i, n) == IF 0 <= i /\ i < n THEN i
                 ELSE IF -n <= i /\ i < 0 THEN i + n
                 ELSE -1

-----------------------------------------------------------------------------
(* Bresenham line of sight: Map.bresenham_line *)

RECURSIVE BresenhamFrom(_, _, _, _, _, _, _, _, _)
BresenhamFrom(x, y, x1, y1, dx, dy, sx, sy, err) ==
    IF x = x1 /\ y = y1 THEN << <<x, y>> >>
    ELSE LET e2   == 2 * err
             stepx == e2 >= dy
             stepy == e2 <= dx
             err1 == IF stepx THEN err + dy ELSE err
             nx   == IF stepx THEN x + sx ELSE x
             err2 == IF stepy THEN err1 + dx ELSE err1
             ny   == IF stepy THEN y + sy ELSE y
         IN  << <<x, y>> >> \o BresenhamFrom(nx, ny, x1, y1, dx, dy, sx, sy, err2)

bresenham_line(x0, y0, x1, y1) ==
    LET dx == Abs(x1 - x0)
        sx == IF x0 < x1 THEN 1 ELSE -1
        dy == -Abs(y1 - y0)
        sy == IF y0 < y1 THEN 1 ELSE -1
    IN  BresenhamFrom(x0, y0, x1, y1, dx, dy, sx, sy, dx + dy)

-----------------------------------------------------------------------------
(* Map.update_visibility_bresenham_soft *)

\* visibility starts at 1.0; it is kept in millionths, so that the products
\* of the catalog's transparencies (1.0, 0.4, 0.1, 0.0) stay exact.
FullVisibility == 1000000
\* "visibility < 0.01", in millionths.
MinVisibility == 10000

\* A ray that no tile stops: every cell of the line up to the target is marked.
TraceRaySeeThrough(md, w, h, line, i, tx, ty, visibility, acc) ==
    [cells |-> acc \cup {<<NpIndex(line[k][1], w), NpIndex(line[k][2], h)>> :
                             k \in i .. Len(line)},
     err   |-> FALSE]

\* One ray: the cells the inner loop marks for target (tx, ty), walking the
\* line from index i with the accumulated visibility.  Returns the cells
\* marked (after numpy's index wrap) and whether an IndexError was raised.
RECURSIVE TraceRay(_, _, _, _, _, _, _, _, _)
TraceRay(md, w, h, line, i, tx, ty, visibility, acc) ==
    IF i > Len(line) \/ visibility <= 0 THEN [cells |-> acc, err |-> FALSE]
    ELSE LET lx == line[i][1]
             ly == line[i][2]
             ix == NpIndex(lx, w)
             iy == NpIndex(ly, h)
         IN  IF ix < 0 \/ iy < 0 THEN [cells |-> acc, err |-> TRUE]
             ELSE LET marked == acc \cup {<<ix, iy>>}
                      tile   == Tile(md[iy][ix])
                      v      == (visibility * tile.transparency) \div 10
                  IN  IF lx = tx /\ ly = ty THEN [cells |-> marked, err |-> FALSE]
                      ELSE IF tile.transparency <= 1 \/ v < MinVisibility
                           THEN [cells |-> marked, err |-> FALSE]
                           ELSE TraceRay(md, w, h, line, i + 1, tx, ty, v, marked)

\* The double loop with a strict circle test.
RayTargetsStrict(px, py, radius, w, h) ==
    {d \in (-radius .. radius) \X (-radius .. radius) :
        /\ d[1] * d[1] + d[2] * d[2] < radius * radius
        /\ InBounds(px + d[1], py + d[2], w, h)}

\* The offsets (dx, dy) of the double loop whose target passes both tests:
\* inside the circle and inside the grid.
RayTargets(px, py, radius, w, h) ==
    {d \in (-radius .. radius) \X (-radius .. radius) :
        /\ d[1] * d[1] + d[2] * d[2] <= radius * radius
        /\ InBounds(px + d[1], py + d[2], w, h)}

\* Position of offset d in the iteration order (dy outer, dx inner).
LoopOrder(d, radius) == (d[2] + radius) * (2 * radius + 1) + (d[1] + radius)

\* The viewer's own cell, marked before the loop when it is in bounds.
OwnCell(px, py, w, h) == IF InBounds(px, py, w, h) THEN {<<px, py>>} ELSE {}

\* All cells the update marks, and whether it ended in an IndexError: the
\* rays run in loop order and the first error ends the call.
MarkedByUpdate(md, w, h, px, py, radius) ==
    LET targets == RayTargets(px, py, radius, w, h)
        ray     == [d \in targets |->
                       TraceRay(md, w, h,
                                bresenham_line(px, py, px + d[1], py + d[2]),
                                1, px + d[1], py + d[2], FullVisibility, {})]
        failing == {d \in targets : ray[d].err}
        first   == IF failing = {} THEN -1
                   ELSE CHOOSE k \in {LoopOrder(d, radius) : d \in failing} :
                            \A d \in failing : k <= LoopOrder(d, radius)
        ran     == IF failing = {} THEN targets
                   ELSE {d \in targets : LoopOrder(d, radius) <= first}
    IN  [cells |-> OwnCell(px, py, w, h) \cup UNION {ray[d].cells : d \in ran},
         err   |-> failing # {}]

\* An explored plane that keeps only what this update marked.
ExploredAfterCleared(explored, marked) == marked

\* An explored plane that the update never writes.
ExploredAfterUnmarked(explored, marked) == explored

\* A visible plane that the update leaves as it was.
VisibleAfterUntouched(visible, marked) == visible

\* An update that never takes the reveal shortcut.
NeverTakesRevealShortcut(revealed) == FALSE

\* The explored plane after an update: marked cells are added, none removed.
ExploredAfter(explored, marked) == explored \cup marked

\* The visible plane after an update of a non-revealed map: cleared, then marked.
VisibleAfter(visible, marked) == marked

\* Whether the update takes the reveal shortcut.
TakesRevealShortcut(revealed) == revealed

\* The whole call, as the new <<visible_map, explored_map, status>>.
update_visibility_bresenham_soft(md, w, h, visible, explored, revealed, p) ==
    IF TakesRevealShortcut(revealed)
    THEN [visible |-> Cells(w, h), explored |-> explored, status |-> "ok"]
    ELSE LET m == MarkedByUpdate(md, w, h, p.x, p.y, p.view_radius)
         IN  [visible  |-> VisibleAfter(visible, m.cells),
              explored |-> ExploredAfter(explored, m.cells),
              status   |-> IF m.err THEN "IndexError" ELSE "ok"]

-----------------------------------------------------------------------------
(* The game loop on one generated grid: Game.run, Game.update,             *)
(* Player.attempt_move, Developer.teleport, Developer.reveal_map           *)

\* The grids the loop runs on are square, large enough to hold the full
\* view square of a viewer at the centre inside the wall border.
VisSize == 2 * MaxRadius + 3
Centre  == MaxRadius + 1

\* A generated cave: the border ring is wall, the interior open floor.
OpenCave(w, h) ==
    [y \in 0 .. h - 1 |-> [x \in 0 .. w - 1 |->
        IF x = 0 \/ y = 0 \/ x = w - 1 \/ y = h - 1 THEN CAVE_WALL ELSE CAVE_FLOOR]]

\* Where the one odd tile of a grid may lie, relative to the centre: sharing
\* an edge with it, or a corner.
ObstacleOffsets == {<<1, 0>>, <<1, 1>>}

\* The grids of the visibility runs: the open cave, or the open cave with one
\* interior tile left as wall, grown over with moss, or flooded.
VisGrids ==
    {OpenCave(VisSize, VisSize)} \cup
    {[OpenCave(VisSize, VisSize) EXCEPT ![Centre + o[2]][Centre + o[1]] = t] :
        o \in ObstacleOffsets, t \in {CAVE_WALL, MOSSY_WALL, WATER}}

\* A generate_cave call without smoothing has returned before the loop runs
\* (noise, moss and water can leave any of VisGrids); a second run and the
\* scatter pass are not part of this specification.
GenDone ==
    /\ cfg = [seed |-> "None", smoothing_iterations |-> 0, connect_regions |-> TRUE,
              add_moss |-> TRUE, add_water |-> TRUE]
    /\ stage = "done"
    /\ smoothed = 0
    /\ map_b = <<>>
    /\ reports = <<>>

ItemsIdle ==
    /\ walkable_tiles = 0
    /\ batch_start = 0
    /\ placed_items = 0
    /\ tile_items = {}
    /\ skipped = 0

\* No tile object is followed, no call is under way, the inventory is empty
\* and no generation thread has been started.
ObjIdle ==
    /\ tile_at = <<>>
    /\ items = <<>>

CallIdle ==
    /\ call = [op |-> "none"]
    /\ ret = "none"
    /\ inventory = <<>>

LoadIdle ==
    /\ loading = FALSE
    /\ thread = <<>>

ScanIdle == scan = [pc |-> "none"]

RestIdle == ObjIdle /\ CallIdle /\ LoadIdle /\ ScanIdle

InitVis ==
    /\ GenDone
    /\ ItemsIdle
    /\ RestIdle
    /\ width = VisSize
    /\ height = VisSize
    /\ map_data \in VisGrids
    /\ visible_map = {}
    /\ explored_map = {}
    /\ is_revealed = FALSE
    /\ \E r \in 0 .. MaxRadius : player = [x |-> Centre, y |-> Centre, view_radius |-> r]
    /\ turn = "update"
    /\ frames = 0
    /\ status = "ok"

\* Game.update in the GAME state: the player's field of view is recomputed.
UpdateVisibility ==
    /\ status = "ok"
    /\ turn = "update"
    /\ frames < MaxFrames
    /\ LET r == update_visibility_bresenham_soft(map_data, width, height,
                    visible_map, explored_map, is_revealed, player)
       IN  /\ visible_map' = r.visible
           /\ explored_map' = r.explored
           /\ status' = r.status
    /\ turn' = "event"
    /\ frames' = frames + 1
    /\ UNCHANGED <<width, height, map_data, is_revealed, player>>
    /\ UNCHANGED <<genVars, itemVars, restVars>>

\* Map.get_tile_at_xy: the tile, or None (here: the name "None").
get_tile_at_xy(md, w, h, x, y) ==
    IF 0 <= x /\ x < w /\ 0 <= y /\ y < h THEN md[y][x] ELSE "None"

\* Player.attempt_move, reached from handle_movement_input with the key
\* direction (dx, dy): a free target is entered; a blocked one leaves the
\* player in place and recomputes the field of view; a target outside the
\* grid has no tile, and reading tile.blocked raises AttributeError.
Move(dx, dy) ==
    /\ status = "ok"
    /\ turn = "event"
    /\ frames < MaxFrames
    /\ LET x    == player.x + dx
           y    == player.y + dy
           tile == get_tile_at_xy(map_data, width, height, x, y)
       IN  IF tile = "None"
           THEN /\ status' = "AttributeError"
                /\ UNCHANGED <<player, visible_map, explored_map>>
           ELSE IF ~Tile(tile).blocked
           THEN /\ player' = [player EXCEPT !.x = x, !.y = y]
                /\ UNCHANGED <<status, visible_map, explored_map>>
           ELSE LET r == update_visibility_bresenham_soft(map_data, width, height,
                             visible_map, explored_map, is_revealed, player)
                IN  /\ visible_map' = r.visible
                    /\ explored_map' = r.explored
                    /\ status' = r.status
                    /\ UNCHANGED player
    /\ turn' = "update"
    /\ UNCHANGED <<width, height, map_data, is_revealed, frames>>
    /\ UNCHANGED <<genVars, itemVars, restVars>>

\* Developer.teleport: any coordinates are taken as they are.
Teleport(x, y) ==
    /\ status = "ok"
    /\ turn = "event"
    /\ frames < MaxFrames
    /\ player' = [player EXCEPT !.x = x, !.y = y]
    /\ turn' = "update"
    /\ UNCHANGED <<width, height, map_data, visible_map, explored_map,
                   is_revealed, frames, status>>
    /\ UNCHANGED <<genVars, itemVars, restVars>>

\* Developer.reveal_map: both planes are set everywhere, then the flag.
RevealMap ==
    /\ status = "ok"
    /\ turn = "event"
    /\ frames < MaxFrames
    /\ visible_map' = Cells(width, height)
    /\ explored_map' = Cells(width, height)
    /\ is_revealed' = TRUE
    /\ UNCHANGED <<width, height, map_data, player, turn, frames, status>>
    /\ UNCHANGED <<genVars, itemVars, restVars>>

MoveAny == \E dx \in {-1, 0, 1}, dy \in {-1, 0, 1} :
               /\ dx # 0 \/ dy # 0
               /\ Move(dx, dy)

\* The coordinates a teleport is given here, along an axis of length n:
\* TeleportMargin before the first cell, the first cell, the centre, the
\* last cell, and TeleportMargin past it.
TeleportCoords(n) == {0 - TeleportMargin, 0, Centre, n - 1, n - 1 + TeleportMargin}

\* The teleport targets: those coordinates on both axes, and the cells where
\* the odd tile of the grid may lie.
TeleportTargets ==
    (TeleportCoords(width) \X TeleportCoords(height)) \cup
    {<<Centre + o[1], Centre + o[2]>> : o \in ObstacleOffsets}

TeleportAny == \E target \in TeleportTargets : Teleport(target[1], target[2])

NextVis == UpdateVisibility \/ MoveAny \/ TeleportAny \/ RevealMap

SpecVis == InitVis /\ [][NextVis]_vars

-----------------------------------------------------------------------------
(* Properties of the visibility planes *)

\* The state right after Game.update recomputed the field of view of the
\* player where they stand now, on a map that is not revealed.
JustUpdated == turn = "event" /\ frames >= 1 /\ status = "ok" /\ ~is_revealed

Dist2(c, p) == (c[1] - p.x) * (c[1] - p.x) + (c[2] - p.y) * (c[2] - p.y)

\* The cells within the view radius of viewer p, in the grid or not.
Disc(p) ==
    {c \in (p.x - p.view_radius .. p.x + p.view_radius) \X
           (p.y - p.view_radius .. p.y + p.view_radius) :
        Dist2(c, p) <= p.view_radius * p.view_radius}

\* The cells of c's traced line from viewer p.
OnLine(p, c) ==
    LET line == bresenham_line(p.x, p.y, c[1], c[2])
    IN  {line[k] : k \in 1 .. Len(line)}

\* C4: the explored plane never loses a cell: whatever step is taken
\* (a visibility update from any position, a move, a teleport, a reveal),
\* every explored cell stays explored.
C4_ExploredMonotone == [][explored_map \subseteq explored_map']_vars

\* A second update has run from elsewhere: some explored cell is no longer
\* visible, yet still explored.
C4_Witness ==
    /\ frames >= 2
    /\ ~is_revealed
    /\ explored_map \ visible_map # {}

\* C5: after an update of a non-revealed map the visible plane is exactly
\* what this update marked, and every visible cell lies within the squared
\* radius of the viewer.
C5_VisibleRecomputed ==
    JustUpdated =>
        /\ visible_map = MarkedByUpdate(map_data, width, height,
                                        player.x, player.y, player.view_radius).cells
        /\ \A c \in visible_map :
               Dist2(c, player) <= player.view_radius * player.view_radius

\* C6: once the map is revealed both planes are entirely true in every
\* later state, and no step clears the flag.
C6_RevealedStaysRevealed ==
    /\ [](is_revealed => /\ visible_map = Cells(width, height)
                         /\ explored_map = Cells(width, height))
    /\ [][is_revealed => is_revealed']_vars

\* The map was revealed, the player then went elsewhere, and an update ran.
C6_Witness ==
    /\ is_revealed
    /\ frames >= 2
    /\ turn = "event"
    /\ <<player.x, player.y>> # <<Centre, Centre>>
    /\ player.view_radius <= 1

\* The area of radius R around the viewer lies in the grid and is all Floor.
AllFloorDisc ==
    \A c \in Disc(player) :
        /\ InBounds(c[1], c[2], width, height)
        /\ map_data[c[2]][c[1]] = CAVE_FLOOR

\* C7: in an all-Floor area of radius R inside the grid, an update marks
\* visible exactly the cells within squared distance R * R of the viewer.
C7_OpenDiscVisible ==
    (JustUpdated /\ AllFloorDisc) => visible_map = Disc(player)

C7_Witness ==
    /\ JustUpdated
    /\ AllFloorDisc
    /\ player.view_radius = MaxRadius
    /\ visible_map = Disc(player)

\* o is a fully opaque tile next to the viewer (neighbours \in the offsets
\* counted as adjacent), within view, in an area that is otherwise all Floor.
LoneOpaqueTile(o, neighbours) ==
    /\ <<o[1] - player.x, o[2] - player.y>> \in neighbours
    /\ o \in Disc(player)
    /\ \A c \in Disc(player) : InBounds(c[1], c[2], width, height)
    /\ Tile(map_data[o[2]][o[1]]).transparency = 0
    /\ \A c \in Disc(player) \ {o} : map_data[c[2]][c[1]] = CAVE_FLOOR

EdgeNeighbours   == {<<1, 0>>, <<-1, 0>>, <<0, 1>>, <<0, -1>>}
CornerNeighbours == {<<1, 1>>, <<-1, 1>>, <<1, -1>>, <<-1, -1>>}

\* The cells strictly beyond o: those whose traced line passes through o.
Beyond(o) == {c \in Disc(player) \ {o} : o \in OnLine(player, c)}

\* The cells strictly beyond o in the straight line from the viewer through o.
StraightBeyond(o) ==
    {c \in Disc(player) \ {o} :
        \E k \in 2 .. MaxRadius + 1 :
            c = <<player.x + k * (o[1] - player.x), player.y + k * (o[2] - player.y)>>}

\* C8, as stated: with one fully opaque tile adjacent to the viewer (by an
\* edge or by a corner), the tile is visible and no cell whose traced line
\* passes through it is.
C8_AsStated ==
    JustUpdated =>
        \A o \in Cells(width, height) :
            LoneOpaqueTile(o, EdgeNeighbours \cup CornerNeighbours) =>
                /\ o \in visible_map
                /\ Beyond(o) \cap visible_map = {}

\* C8, amended: the opaque tile is visible; when it shares an edge with the
\* viewer no cell whose traced line passes through it is visible; when it
\* shares only a corner, no cell straight beyond it on the diagonal is.
C8_OpaqueNeighbourOccludes ==
    JustUpdated =>
        \A o \in Cells(width, height) :
            /\ LoneOpaqueTile(o, EdgeNeighbours) =>
                   /\ o \in visible_map
                   /\ Beyond(o) \cap visible_map = {}
            /\ LoneOpaqueTile(o, CornerNeighbours) =>
                   /\ o \in visible_map
                   /\ StraightBeyond(o) \cap visible_map = {}

\* An opaque tile shares an edge with the viewer and hides the cells behind it.
C8_Witness ==
    /\ JustUpdated
    /\ player.view_radius >= 3
    /\ \E o \in Cells(width, height) :
           /\ LoneOpaqueTile(o, EdgeNeighbours)
           /\ o \in visible_map
           /\ Cardinality(Beyond(o)) >= 3
           /\ Beyond(o) \cap visible_map = {}

\* C9: after an update of a non-revealed map with the viewer inside the
\* grid, the viewer's own cell is visible and explored, whatever tile it is.
C9_OwnCellVisible ==
    (JustUpdated /\ InBounds(player.x, player.y, width, height)) =>
        /\ <<player.x, player.y>> \in visible_map
        /\ <<player.x, player.y>> \in explored_map

\* The viewer stands on a tile that lets no light through.
C9_Witness ==
    /\ JustUpdated
    /\ InBounds(player.x, player.y, width, height)
    /\ Tile(map_data[player.y][player.x]).transparency = 0
    /\ <<player.x, player.y>> \in visible_map

-----------------------------------------------------------------------------
(* Map.generate_cave, step by step *)

\* Grid sizes of the generation runs, as <<width, height>>: the smallest
\* square on which carve_random_room can place every room size, and the same
\* with one more column.
GridSizes == {<<10, 10>>, <<11, 10>>}

Seeds == {"None", "seed"}

Configs == [seed : Seeds, smoothing_iterations : 0 .. MaxSmooth,
            connect_regions : BOOLEAN, add_moss : BOOLEAN, add_water : BOOLEAN]

\* np.full((height, width), CAVE_WALL)
FullWall(w, h) == [y \in 0 .. h - 1 |-> [x \in 0 .. w - 1 |-> CAVE_WALL]]

\* map_data with tile t written at every cell of cells.
SetTiles(md, cells, t) ==
    [y \in DOMAIN md |-> [x \in DOMAIN md[y] |->
        IF <<x, y>> \in cells THEN t ELSE md[y][x]]]

\* The cells holding catalog tile t (the source compares by identity).
CellsOf(md, w, h, t) == {c \in Cells(w, h) : md[c[2]][c[1]] = t}

\* Step 1, the noise fill of map_data[1:-1, 1:-1]: np.random decides each
\* interior cell on its own, so every set of interior cells can be the floor;
\* here the floor is drawn from two cells, at most MaxNoiseFloor of them.
NoiseCells(w, h) == {<<w - 2, 2>>, <<5, h - 2>>}

NoiseGrids(w, h) ==
    {SetTiles(FullWall(w, h), F, CAVE_FLOOR) :
        F \in {G \in SUBSET NoiseCells(w, h) : Cardinality(G) <= MaxNoiseFloor}}

\* Step 2, carve_random_room: the draws random.randint allows on a w x h grid.
RoomDraw(r, w, h) ==
    /\ r.room_width \in 3 .. 8
    /\ r.room_height \in 3 .. 8
    /\ r.x \in 1 .. w - r.room_width - 1
    /\ r.y \in 1 .. h - r.room_height - 1

\* The rooms drawn here: a small one in each of two opposite corners and
\* the largest one.
RoomChoices(w, h) ==
    {r \in {[x |-> 1, y |-> 1, room_width |-> 3, room_height |-> 3],
            [x |-> w - 4, y |-> h - 4, room_width |-> 3, room_height |-> 3],
            [x |-> 1, y |-> 1, room_width |-> 8, room_height |-> 8]} :
        RoomDraw(r, w, h)}

RoomCells(r) == (r.x .. r.x + r.room_width - 1) \X (r.y .. r.y + r.room_height - 1)

carve_random_room(md, r) == SetTiles(md, RoomCells(r), CAVE_FLOOR)

\* The loop over num_rooms rooms: the rooms drawn, in any order and with
\* repeats, leave the union of the distinct ones carved.
CarveRooms(md, rooms) == SetTiles(md, UNION {RoomCells(r) : r \in rooms}, CAVE_FLOOR)

\* The sets of distinct rooms that num_rooms draws can amount to.
RoomSets(w, h) ==
    {S \in SUBSET RoomChoices(w, h) :
        S # {} /\ \E num_rooms \in 8 .. 32 : Cardinality(S) <= num_rooms}

\* Step 3, one smoothing pass: convolve2d with the 8-neighbour kernel and
\* fillvalue = 1 counts the wall neighbours, cells off the grid included.
Kernel == {d \in {-1, 0, 1} \X {-1, 0, 1} : d # <<0, 0>>}

wall_neighbors(md, w, h, x, y) ==
    Cardinality({d \in Kernel :
        \/ ~InBounds(x + d[1], y + d[2], w, h)
        \/ md[y + d[2]][x + d[1]] = CAVE_WALL})

SmoothOnce(md, w, h) ==
    [y \in 0 .. h - 1 |-> [x \in 0 .. w - 1 |->
        IF wall_neighbors(md, w, h, x, y) > 4 THEN CAVE_WALL ELSE CAVE_FLOOR]]

\* Step 4, scipy.ndimage.label with its default structure: the regions of
\* floor cells joined through shared edges, numbered in scan order.
Neighbours4(c) ==
    {<<c[1] - 1, c[2]>>, <<c[1] + 1, c[2]>>, <<c[1], c[2] - 1>>, <<c[1], c[2] + 1>>}

RECURSIVE Flood(_, _, _)
Flood(F, seen, frontier) ==
    IF frontier = {} THEN seen
    ELSE LET next == ((UNION {Neighbours4(c) : c \in frontier}) \cap F) \ seen
         IN  Flood(F, seen \cup next, next)

\* Position of a cell in row-major order.
Raster(c, w) == c[2] * w + c[1]

FirstInRaster(S, w) == CHOOSE c \in S : \A d \in S : Raster(c, w) <= Raster(d, w)

RECURSIVE label(_, _)
label(F, w) ==
    IF F = {} THEN <<>>
    ELSE LET first  == FirstInRaster(F, w)
             region == Flood(F, {first}, {first})
         IN  <<region>> \o label(F \ region, w)

\* np.argmax(np.bincount(labeled_regions.flat)[1:]) + 1: the first of the
\* largest regions.
largest_region(regions) ==
    CHOOSE i \in 1 .. Len(regions) :
        /\ \A j \in 1 .. Len(regions) : Cardinality(regions[j]) <= Cardinality(regions[i])
        /\ \A j \in 1 .. i - 1 : Cardinality(regions[j]) < Cardinality(regions[i])

\* np.argwhere of a region: its cells as <<row, column>>, in row-major order.
RECURSIVE argwhere(_, _)
argwhere(region, w) ==
    IF region = {} THEN <<>>
    ELSE LET c == FirstInRaster(region, w)
         IN  <<<<c[2], c[1]>>>> \o argwhere(region \ {c}, w)

\* Map.bresenham_line_procgen
bresenham_line_procgen(start, end) ==
    LET dx == Abs(end[1] - start[1])
        dy == -Abs(end[2] - start[2])
        sx == IF start[1] < end[1] THEN 1 ELSE -1
        sy == IF start[2] < end[2] THEN 1 ELSE -1
    IN  BresenhamFrom(start[1], start[2], end[1], end[2], dx, dy, sx, sy, dx + dy)

\* The cells <<x, y>> one tunnel sets to floor: the entries of the line that
\* pass the test against labeled_regions.shape, written at map_data[y, x].
TunnelCells(start, end, w, h) ==
    LET line == bresenham_line_procgen(start, end)
    IN  {line[k] : k \in {j \in 1 .. Len(line) :
                             /\ 0 < line[j][1] /\ line[j][1] < w
                             /\ 0 < line[j][2] /\ line[j][2] < h}}

\* The values np.random.randint(n) is drawn from here: the first and the
\* last MaxPick indices (0-based).
PickIndices(n) == {i \in 0 .. n - 1 : i < MaxPick \/ i >= n - MaxPick}

\* connect_region_to_main: what one region's tunnel can carve.
connect_region_to_main(region_coords, main_region_coords, w, h) ==
    {TunnelCells(region_coords[i + 1], main_region_coords[j + 1], w, h) :
        i \in PickIndices(Len(region_coords)),
        j \in PickIndices(Len(main_region_coords))}

\* All unions of one member from each set of a sequence of sets of sets.
RECURSIVE OneFromEach(_)
OneFromEach(choices) ==
    IF choices = <<>> THEN {{}}
    ELSE {a \cup b : a \in Head(choices), b \in OneFromEach(Tail(choices))}

\* The grids the connectivity step can leave: the labels are taken once,
\* then every region but the largest gets a tunnel.
ConnectGrids(md, w, h) ==
    LET regions == label(CellsOf(md, w, h, CAVE_FLOOR), w)
    IN  IF Len(regions) <= 1 THEN {md}
        ELSE LET main  == largest_region(regions)
                 coords == [i \in 1 .. Len(regions) |-> argwhere(regions[i], w)]
                 others == SelectSeq([i \in 1 .. Len(regions) |-> i],
                                     LAMBDA i : i # main)
                 carved == [k \in 1 .. Len(others) |->
                               connect_region_to_main(coords[others[k]], coords[main], w, h)]
             IN  {SetTiles(md, cells, CAVE_FLOOR) : cells \in OneFromEach(carved)}

\* Step 5, add_water_pools: the scan starts a pool at a floor cell when
\* random.random() < prob; flood_fill_water draws the pool's sides and turns
\* the floor cells of the clipped rectangle into water.  Cells marked visited
\* are exactly the cells turned into water, which are no longer CAVE_FLOOR.
Max(a, b) == IF a >= b THEN a ELSE b
Min(a, b) == IF a <= b THEN a ELSE b

flood_fill_water(md, w, h, pool) ==
    LET min_x == Max(pool.x - pool.pool_width \div 2, 0)
        max_x == Min(pool.x + pool.pool_width \div 2, w - 1)
        min_y == Max(pool.y - pool.pool_height \div 2, 0)
        max_y == Min(pool.y + pool.pool_height \div 2, h - 1)
    IN  SetTiles(md, {c \in (min_x .. max_x) \X (min_y .. max_y) :
                         md[c[2]][c[1]] = CAVE_FLOOR}, WATER)

\* The cells at which the scan may start a pool here, and the values drawn
\* for a pool's sides: both ends of random.randint(1, 4).
PoolStarts(w, h) == {<<3, 3>>}

PoolSides == {1, 4}

\* What the scan draws: the pools, in scan order, with their sides.
RECURSIVE InScanOrder(_, _, _)
InScanOrder(plan, w, k) ==
    IF k >= Len(plan) THEN TRUE
    ELSE /\ Raster(<<plan[k].x, plan[k].y>>, w) < Raster(<<plan[k + 1].x, plan[k + 1].y>>, w)
         /\ InScanOrder(plan, w, k + 1)

\* The sequences of n members of S.
RECURSIVE SeqsOfLen(_, _)
SeqsOfLen(S, n) ==
    IF n = 0 THEN {<<>>}
    ELSE {Append(q, e) : q \in SeqsOfLen(S, n - 1), e \in S}

WaterPlans(w, h) ==
    LET pools == {[x |-> c[1], y |-> c[2], pool_width |-> pw, pool_height |-> ph] :
                     c \in PoolStarts(w, h), pw \in PoolSides, ph \in PoolSides}
    IN  UNION {{plan \in SeqsOfLen(pools, n) : InScanOrder(plan, w, 1)} : n \in 0 .. MaxPools}

\* add_water_pools under a plan; a pool whose start is not floor when the
\* scan reaches it is not started.
RECURSIVE add_water_pools(_, _, _, _, _)
add_water_pools(md, w, h, plan, k) ==
    IF k > Len(plan) THEN md
    ELSE IF md[plan[k].y][plan[k].x] = CAVE_FLOOR
         THEN add_water_pools(flood_fill_water(md, w, h, plan[k]), w, h, plan, k + 1)
         ELSE add_water_pools(md, w, h, plan, k + 1)

\* The plans the scan can draw on this grid: every pool starts on floor.
RECURSIVE WaterPlanFits(_, _, _, _, _)
WaterPlanFits(md, w, h, plan, k) ==
    IF k > Len(plan) THEN TRUE
    ELSE /\ md[plan[k].y][plan[k].x] = CAVE_FLOOR
         /\ WaterPlanFits(flood_fill_water(md, w, h, plan[k]), w, h, plan, k + 1)

\* Neighbours that include the four diagonal ones.
get_neighbors_Diagonal(x, y, w, h) ==
    SelectSeq(<< <<x - 1, y>>, <<x + 1, y>>, <<x, y - 1>>, <<x, y + 1>>,
                 <<x - 1, y - 1>>, <<x + 1, y + 1>>, <<x + 1, y - 1>>, <<x - 1, y + 1>> >>,
              LAMBDA n : InBounds(n[1], n[2], w, h))

\* Map.get_neighbors: the in-grid neighbours, in the order of its offsets.
get_neighbors(x, y, w, h) ==
    SelectSeq(<< <<x - 1, y>>, <<x + 1, y>>, <<x, y - 1>>, <<x, y + 1>> >>,
              LAMBDA n : InBounds(n[1], n[2], w, h))

\* flood_fill_moss: the stack loop.  walls are the CAVE_WALL cells before
\* the pass; a cell is still CAVE_WALL while it is in walls and not in moss.
RECURSIVE MossLoop(_, _, _, _, _, _, _)
MossLoop(walls, w, h, stack, visited, moss, left) ==
    IF stack = <<>> \/ left = 0 THEN [moss |-> moss, visited |-> visited]
    ELSE LET c     == stack[Len(stack)]
             rest  == SubSeq(stack, 1, Len(stack) - 1)
             grows == c \in walls \ moss
             moss1 == IF grows THEN moss \cup {c} ELSE moss
             push  == SelectSeq(get_neighbors(c[1], c[2], w, h),
                                LAMBDA n : n \notin visited /\ n \in walls \ moss1)
         IN  MossLoop(walls, w, h, rest \o push,
                      visited \cup {push[k] : k \in 1 .. Len(push)},
                      moss1, IF grows THEN left - 1 ELSE left)

\* A cluster that grows until it runs out of wall.
flood_fill_moss_Unbounded(walls, w, h, cluster, visited, moss) ==
    MossLoop(walls, w, h, << <<cluster.x, cluster.y>> >>,
             visited \cup {<<cluster.x, cluster.y>>}, moss, w * h)

flood_fill_moss(walls, w, h, cluster, visited, moss) ==
    MossLoop(walls, w, h, << <<cluster.x, cluster.y>> >>,
             visited \cup {<<cluster.x, cluster.y>>}, moss, cluster.cluster_size)

\* The cells at which the scan may start a moss cluster here, and the values
\* drawn for a cluster's size: both ends of random.randint(2, 12).
MossStarts(w, h) == {<<5, 5>>}

ClusterSizes == {2, 12}

MossPlans(w, h) ==
    LET clusters == {[x |-> c[1], y |-> c[2], cluster_size |-> n] :
                        c \in MossStarts(w, h), n \in ClusterSizes}
    IN  UNION {{plan \in SeqsOfLen(clusters, n) : InScanOrder(plan, w, 1)} :
                  n \in 0 .. MaxClusters}

\* add_moss_to_walls under a plan, as [moss, visited, fits]: a cluster whose
\* start is not an unvisited CAVE_WALL when the scan reaches it is not started
\* (and the plan then does not fit the grid).
RECURSIVE MossScan(_, _, _, _, _, _)
MossScan(walls, w, h, plan, k, acc) ==
    IF k > Len(plan) THEN acc
    ELSE LET c == <<plan[k].x, plan[k].y>>
         IN  IF c \in walls \ acc.moss /\ c \notin acc.visited
             THEN LET r == flood_fill_moss(walls, w, h, plan[k], acc.visited, acc.moss)
                  IN  MossScan(walls, w, h, plan, k + 1,
                               [moss |-> r.moss, visited |-> r.visited, fits |-> acc.fits])
             ELSE MossScan(walls, w, h, plan, k + 1,
                           [moss |-> acc.moss, visited |-> acc.visited, fits |-> FALSE])

MossResult(md, w, h, plan) ==
    MossScan(CellsOf(md, w, h, CAVE_WALL), w, h, plan, 1,
             [moss |-> {}, visited |-> {}, fits |-> TRUE])

add_moss_to_walls(md, w, h, plan) ==
    SetTiles(md, MossResult(md, w, h, plan).moss, MOSSY_WALL)

MossPlanFits(md, w, h, plan) == MossResult(md, w, h, plan).fits

\* generate_cave counts its steps 0 .. 5 out of total_steps.
total_steps == 6

\* update_progress with the overall fraction taken to be the fraction inside
\* the step alone.
update_progress_StepOnly(step_index, num, den) ==
    [step_index |-> step_index, step_progress |-> <<num, den>>,
     overall |-> <<num, den>>]

\* update_progress(screen, font, label, step_index, step_progress,
\* total_steps, current_progress): the overall fraction it hands to the
\* loading screen is (step_index + step_progress) / total_steps.  Fractions
\* are kept exact, as <<numerator, denominator>>; step_progress is num / den.
update_progress(step_index, num, den) ==
    [step_index |-> step_index, step_progress |-> <<num, den>>,
     overall |-> <<step_index * den + num, total_steps * den>>]

\* The two reports that open and close a step.
StepReports(step_index) ==
    <<update_progress(step_index, 0, 1), update_progress(step_index, 1, 1)>>

\* The game loop has not started while a cave is generated.
LoopIdle ==
    /\ visible_map = {}
    /\ explored_map = {}
    /\ is_revealed = FALSE
    /\ player = [x |-> 0, y |-> 0, view_radius |-> 0]
    /\ turn = "update"
    /\ frames = 0
    /\ status = "ok"

\* Map.__init__ followed by the call of generate_cave; with second, a second
\* Map of the same size is given the same call, and the call names a seed.
InitGen(second) ==
    /\ LoopIdle
    /\ ItemsIdle
    /\ RestIdle
    /\ reports = <<>>
    /\ \E size \in GridSizes :
           /\ width = size[1]
           /\ height = size[2]
           /\ map_data = FullWall(size[1], size[2])
           /\ map_b = IF second THEN FullWall(size[1], size[2]) ELSE <<>>
    /\ cfg \in Configs
    /\ second => cfg.seed # "None"
    /\ stage = "noise"
    /\ smoothed = 0

\* random.seed(seed) when a seed is given, then Step 1.  numpy's generator is
\* not seeded by it, so a second run draws its noise independently.
NoiseFill(second) ==
    /\ stage = "noise"
    /\ map_data' \in NoiseGrids(width, height)
    /\ IF second THEN map_b' \in NoiseGrids(width, height) ELSE map_b' = map_b
    /\ stage' = "rooms"
    /\ reports' = reports \o StepReports(0)
    /\ UNCHANGED <<width, height, cfg, smoothed>>
    /\ UNCHANGED <<loopVars, itemVars, restVars>>

\* Step 2: random.randint draws the rooms, so the second run, seeded alike,
\* draws the same ones.
CarveRoomsStep(second) ==
    /\ stage = "rooms"
    /\ \E rooms \in RoomSets(width, height) :
           /\ map_data' = CarveRooms(map_data, rooms)
           /\ map_b' = IF second THEN CarveRooms(map_b, rooms) ELSE map_b
    /\ stage' = "smooth"
    /\ reports' = reports \o StepReports(1)
    /\ UNCHANGED <<width, height, cfg, smoothed>>
    /\ UNCHANGED <<loopVars, itemVars, restVars>>

\* Step 3: one pass of the smoothing loop.
SmoothPass(second) ==
    /\ stage = "smooth"
    /\ smoothed < cfg.smoothing_iterations
    /\ map_data' = SmoothOnce(map_data, width, height)
    /\ map_b' = IF second THEN SmoothOnce(map_b, width, height) ELSE map_b
    /\ smoothed' = smoothed + 1
    /\ reports' = Append(reports, update_progress(2, smoothed + 1, cfg.smoothing_iterations))
    /\ UNCHANGED <<width, height, cfg, stage>>
    /\ UNCHANGED <<loopVars, itemVars, restVars>>

\* The closing report of Step 3 after the last smoothing pass, then Step 4:
\* tunnels when connect_regions is set.  Their endpoints come from np.random.
ConnectRegions(second) ==
    /\ stage = "smooth"
    /\ smoothed = cfg.smoothing_iterations
    /\ IF cfg.connect_regions
       THEN /\ map_data' \in ConnectGrids(map_data, width, height)
            /\ IF second THEN map_b' \in ConnectGrids(map_b, width, height)
               ELSE map_b' = map_b
       ELSE UNCHANGED <<map_data, map_b>>
    /\ reports' = Append(reports, update_progress(2, 1, 1))
                      \o (IF cfg.connect_regions THEN StepReports(3) ELSE <<>>)
    /\ stage' = "water"
    /\ UNCHANGED <<width, height, cfg, smoothed>>
    /\ UNCHANGED <<loopVars, itemVars, restVars>>

\* Step 5: the pools when add_water is set.  The draws come from random: the
\* second run, seeded alike, replays the plan (where its grid already
\* differs the plan lands on other cells; pools replace floor only, so the
\* two grids stay different).
AddWater(second) ==
    /\ stage = "water"
    /\ IF cfg.add_water
       THEN \E plan \in WaterPlans(width, height) :
                /\ WaterPlanFits(map_data, width, height, plan, 1)
                /\ map_data' = add_water_pools(map_data, width, height, plan, 1)
                /\ map_b' = IF second
                             THEN add_water_pools(map_b, width, height, plan, 1)
                             ELSE map_b
       ELSE UNCHANGED <<map_data, map_b>>
    /\ reports' = reports \o (IF cfg.add_water THEN StepReports(4) ELSE <<>>)
    /\ stage' = "moss"
    /\ UNCHANGED <<width, height, cfg, smoothed>>
    /\ UNCHANGED <<loopVars, itemVars, restVars>>

\* The moss clusters when add_moss is set, drawn from random like the pools
\* (moss replaces wall only).
AddMoss(second) ==
    /\ stage = "moss"
    /\ IF cfg.add_moss
       THEN \E plan \in MossPlans(width, height) :
                /\ MossPlanFits(map_data, width, height, plan)
                /\ map_data' = add_moss_to_walls(map_data, width, height, plan)
                /\ map_b' = IF second
                             THEN add_moss_to_walls(map_b, width, height, plan)
                             ELSE map_b
       ELSE UNCHANGED <<map_data, map_b>>
    /\ stage' = "items"
    /\ UNCHANGED <<width, height, cfg, smoothed, reports>>
    /\ UNCHANGED <<loopVars, itemVars, restVars>>

\* The copy loop gives every cell its own tile of the same kind; Step 6 then
\* calls generate_items_on_map, which on a grid of fewer than 750 cells has
\* nothing to place (SpecItems follows the pass on larger maps).
CopyAndScatter ==
    /\ stage = "items"
    /\ (width * height) \div 750 = 0
    /\ stage' = "done"
    /\ reports' = reports \o StepReports(5)
    /\ UNCHANGED <<width, height, map_data, map_b, cfg, smoothed>>
    /\ UNCHANGED <<loopVars, itemVars, restVars>>

Init == InitGen(FALSE)

Next ==
    \/ NoiseFill(FALSE)
    \/ CarveRoomsStep(FALSE)
    \/ SmoothPass(FALSE)
    \/ ConnectRegions(FALSE)
    \/ AddWater(FALSE)
    \/ AddMoss(FALSE)
    \/ CopyAndScatter

Spec == Init /\ [][Next]_vars

InitDet == InitGen(TRUE)

NextDet ==
    \/ NoiseFill(TRUE)
    \/ CarveRoomsStep(TRUE)
    \/ SmoothPass(TRUE)
    \/ ConnectRegions(TRUE)
    \/ AddWater(TRUE)
    \/ AddMoss(TRUE)
    \/ CopyAndScatter

SpecDet == InitDet /\ [][NextDet]_vars

-----------------------------------------------------------------------------
(* Properties of the generated grid *)

\* The cells a character can enter.
Walkable(md, w, h) == {c \in Cells(w, h) : ~Tile(md[c[2]][c[1]]).blocked}

\* A flood fill over 4-neighbours from a cell of S reaches all of S.
SingleComponent(S) ==
    IF S = {} THEN TRUE
    ELSE LET c == CHOOSE d \in S : TRUE
         IN  Flood(S, {c}, {c}) = S

Border(w, h) ==
    {c \in Cells(w, h) : c[1] = 0 \/ c[2] = 0 \/ c[1] = w - 1 \/ c[2] = h - 1}

\* C1: after generate_cave with connect_regions set, the walkable cells
\* form one 4-connected component.
C1_WalkableConnected ==
    (stage = "done" /\ cfg.connect_regions) =>
        SingleComponent(Walkable(map_data, width, height))

\* C2: after generate_cave every cell of the first and last row and column
\* is blocked, a wall kind.
C2_BorderBlocked ==
    stage = "done" =>
        \A c \in Border(width, height) :
            /\ Tile(map_data[c[2]][c[1]]).blocked
            /\ Tile(map_data[c[2]][c[1]]).tile_type = "WALL"

\* C3: two generate_cave runs with the same seed and the same arguments end
\* with the same grid of tile kinds.
C3_SameSeedSameGrid ==
    (stage = "done" /\ cfg.seed # "None") => map_b = map_data

\* C16: when no floor is left at the connectivity step (so that no cell
\* can be entered from then on), the water, moss and item passes change no
\* cell and the finished grid is all Cave Wall.
C16_NoFloorSkipsDecoration ==
    (stage \in {"water", "moss", "items", "done"}
        /\ Walkable(map_data, width, height) = {}) =>
            \A c \in Cells(width, height) : map_data[c[2]][c[1]] = CAVE_WALL

\* C17: a smoothing pass reads the grid of the pass before and leaves
\* every interior cell with more than 4 wall cells among its 8 neighbours a
\* wall, every one with fewer than 4 a floor, and every one with exactly 4
\* the kind it had.
C17_SmoothingRule ==
    [][smoothed' = smoothed + 1 =>
          \A c \in Cells(width, height) \ Border(width, height) :
              LET n == wall_neighbors(map_data, width, height, c[1], c[2])
              IN  /\ n > 4 => map_data'[c[2]][c[1]] = CAVE_WALL
                  /\ n < 4 => map_data'[c[2]][c[1]] = CAVE_FLOOR
                  /\ n = 4 => map_data'[c[2]][c[1]] = map_data[c[2]][c[1]]]_vars

\* C23: the connectivity step carves, for every floor region but the
\* dominant one, a tunnel from a cell of that region to a cell of the
\* dominant region: after the step every cell of the line between two such
\* cells is floor, the line being drawn and written in one axis order.
C23_TunnelJoinsRegions ==
    [][(stage = "smooth" /\ stage' = "water" /\ cfg.connect_regions) =>
          LET regions == label(CellsOf(map_data, width, height, CAVE_FLOOR), width)
          IN  Len(regions) > 1 =>
                  \A i \in (1 .. Len(regions)) \ {largest_region(regions)} :
                      \E a \in regions[i], b \in regions[largest_region(regions)] :
                          LET line == bresenham_line_procgen(a, b)
                          IN  \A k \in 1 .. Len(line) :
                                  map_data'[line[k][2]][line[k][1]] = CAVE_FLOOR]_vars

\* The cells at which two grids of the same size differ.
Changed(md, md2, w, h) == {c \in Cells(w, h) : md[c[2]][c[1]] # md2[c[2]][c[1]]}

\* C26: the pool of a water pass (one pool is started per pass here) turns
\* only floor into water, changes no border cell, and the cells it changes
\* span at most 4 columns and at most 4 rows.
C26_PoolWithinFourByFour ==
    [][(stage = "water" /\ stage' = "moss") =>
          LET pool == Changed(map_data, map_data', width, height)
          IN  /\ \A c \in pool : /\ map_data[c[2]][c[1]] = CAVE_FLOOR
                                 /\ map_data'[c[2]][c[1]] = WATER
                                 /\ c \notin Border(width, height)
              /\ \A c \in pool, d \in pool : /\ Abs(c[1] - d[1]) <= 3
                                             /\ Abs(c[2] - d[2]) <= 3]_vars

\* C27: the cluster of a moss pass (one cluster is started per pass here)
\* turns only Cave Wall into Mossy Wall, at most 12 cells, which hang
\* together by 4-neighbour steps; floor and water are unchanged and every
\* cell is blocked after the pass exactly if it was before.
C27_MossOnWallsOnly ==
    [][(stage = "moss" /\ stage' = "items") =>
          LET cluster == Changed(map_data, map_data', width, height)
          IN  /\ \A c \in cluster : /\ map_data[c[2]][c[1]] = CAVE_WALL
                                    /\ map_data'[c[2]][c[1]] = MOSSY_WALL
              /\ Cardinality(cluster) <= 12
              /\ SingleComponent(cluster)
              /\ \A c \in Cells(width, height) :
                     Tile(map_data'[c[2]][c[1]]).blocked = Tile(map_data[c[2]][c[1]]).blocked]_vars

\* A moss pass has left a cluster of 12 cells on a grid that has water.
C27_Witness ==
    /\ stage = "items"
    /\ Cardinality(CellsOf(map_data, width, height, MOSSY_WALL)) = 12
    /\ CellsOf(map_data, width, height, WATER) # {}

\* Fraction a is at most fraction b (both with positive denominators).
FracLeq(a, b) == a[1] * b[2] <= b[1] * a[2]

\* C18: during one generate_cave run every reported overall fraction lies
\* in [0, 1], the reported fractions never decrease, and the last report of
\* a finished run is 1.
C18_ProgressMonotone ==
    /\ \A i \in DOMAIN reports :
           /\ reports[i].overall[2] > 0
           /\ 0 <= reports[i].overall[1]
           /\ reports[i].overall[1] <= reports[i].overall[2]
    /\ \A i \in 1 .. Len(reports) - 1 :
           FracLeq(reports[i].overall, reports[i + 1].overall)
    /\ stage = "done" =>
           /\ reports # <<>>
           /\ reports[Len(reports)].overall[1] = reports[Len(reports)].overall[2]

\* A finished run with smoothing passes and with the optional steps left
\* out, so that their reports are missing from the sequence.
C18_Witness ==
    /\ stage = "done"
    /\ cfg.smoothing_iterations = MaxSmooth
    /\ ~cfg.connect_regions
    /\ ~cfg.add_water
    /\ Len(reports) = 6 + MaxSmooth + 1

-----------------------------------------------------------------------------
(* Map.generate_items_on_map: one scatter pass *)

\* Item density and batch count of the pass.
ItemDensity == 750
BatchCount == 15

\* Map sizes of the scatter runs, as <<width, height>>: one too small for
\* any item, one whose target is a multiple of the batch size, one whose
\* target is not.
ItemMapSizes == {<<10, 10>>, <<150, 150>>, <<155, 150>>}

\* Lengths of the walkable_tiles list: no walkable tile, fewer than the
\* target, more than the target.
WalkableCounts == {0, 20, 40}

items_to_generate(w, h) == (w * h) \div ItemDensity

batch_size(w, h) == Max(1, items_to_generate(w, h) \div BatchCount)

\* The map is generated; its walkable tiles without items are listed and
\* shuffled.  The pass reads the list by position only, so the list is kept
\* as its length and a tile is named by its position in it.
InitItems ==
    /\ LoopIdle
    /\ RestIdle
    /\ reports = <<>>
    /\ cfg = [seed |-> "None", smoothing_iterations |-> 0, connect_regions |-> TRUE,
              add_moss |-> TRUE, add_water |-> TRUE]
    /\ smoothed = 0
    /\ map_data = <<>>
    /\ map_b = <<>>
    /\ \E size \in ItemMapSizes : width = size[1] /\ height = size[2]
    /\ walkable_tiles \in WalkableCounts
    /\ stage = "scatter"
    /\ batch_start = 0
    /\ placed_items = 0
    /\ tile_items = {}
    /\ skipped = 0

\* The pass returns without placing: no walkable tile, or an empty range.
ScatterNothing ==
    /\ stage = "scatter"
    /\ walkable_tiles = 0 \/ batch_start >= items_to_generate(width, height)
    /\ stage' = "done"
    /\ UNCHANGED <<width, height, map_data, cfg, smoothed, map_b, reports, loopVars>>
    /\ UNCHANGED restVars
    /\ UNCHANGED <<walkable_tiles, batch_start, placed_items, tile_items, skipped>>

\* One round of the batch loop: every tile of the slice gets an item unless
\* generate_item_by_rarity returns None; the loop ends when enough items are
\* placed or the range is used up.
ScatterBatch ==
    /\ stage = "scatter"
    /\ walkable_tiles > 0
    /\ batch_start < items_to_generate(width, height)
    /\ LET batch_tiles == {k \in batch_start + 1 .. batch_start + batch_size(width, height) :
                              k <= walkable_tiles}
       IN  \E got \in SUBSET batch_tiles :
               /\ Cardinality(batch_tiles \ got) <= MaxSkips - skipped
               /\ tile_items' = tile_items \cup got
               /\ placed_items' = placed_items + Cardinality(got)
               /\ skipped' = skipped + Cardinality(batch_tiles \ got)
    /\ batch_start' = batch_start + batch_size(width, height)
    /\ stage' = IF \/ placed_items' >= items_to_generate(width, height)
                   \/ batch_start' >= items_to_generate(width, height)
                THEN "done" ELSE "scatter"
    /\ UNCHANGED <<width, height, map_data, cfg, smoothed, map_b, reports, loopVars>>
    /\ UNCHANGED restVars
    /\ UNCHANGED walkable_tiles

NextItems == ScatterNothing \/ ScatterBatch

SpecItems == InitItems /\ [][NextItems]_vars

\* C10: one scatter pass places at most total_tiles / 750 items.
C10_ItemsWithinDensity ==
    stage = "done" => placed_items * ItemDensity <= width * height

-----------------------------------------------------------------------------
(* Tile objects: which object each cell refers to, and each object's items *)

\* place_item_at calls per behaviour.
MaxPlaced == 2

\* The map of the object runs, as <<width, height>>: large enough for
\* generate_items_on_map to have two items to place.
ObjGridSize == <<50, 30>>

\* The cells the object runs single out: where the grid has its water and
\* its moss, and the cells place_item_at is called on and the shuffled
\* walkable list may start with.
WaterCell == <<2, 1>>
MossCell == <<3, 1>>
PickedCells == {<<0, 0>>, <<1, 1>>, WaterCell, MossCell, <<48, 28>>}

\* The kinds generate_cave leaves in the cells: wall border, floor inside,
\* one water cell and one mossy wall.
ObjGrid(w, h) ==
    [y \in 0 .. h - 1 |-> [x \in 0 .. w - 1 |->
        IF <<x, y>> \in Border(w, h) THEN CAVE_WALL
        ELSE IF <<x, y>> = WaterCell THEN WATER
        ELSE IF <<x, y>> = MossCell THEN MOSSY_WALL
        ELSE CAVE_FLOOR]]

\* tile_at[y][x] names the object map_data[y][x] refers to: a catalog tile
\* (the module-level object of tileset.py, shared by every cell that refers
\* to it) or "own", the cell's own copy.  items.template holds the length of
\* each catalog tile's items list, items.own[y][x] that of the cell's copy.
AllRefer(w, h, t) == [y \in 0 .. h - 1 |-> [x \in 0 .. w - 1 |-> t]]

NoOwnItems(w, h) == [y \in 0 .. h - 1 |-> [x \in 0 .. w - 1 |-> 0]]

\* len(map_data[y][x].items)
ItemsOn(ta, it, x, y) ==
    IF ta[y][x] = "own" THEN it.own[y][x] ELSE it.template[ta[y][x]]

\* Map.place_item_at: the item is appended to the items list of the object
\* the cell refers to.
place_item_at(ta, it, x, y) ==
    IF ta[y][x] = "own"
    THEN [it EXCEPT !.own[y][x] = @ + 1]
    ELSE [it EXCEPT !.template[ta[y][x]] = @ + 1]

\* copy.deepcopy of the cell's tile, stored back in the cell: the copy's
\* items list is a copy of the original's.
CopyTile(st, x, y) ==
    [st EXCEPT !.tile_at[y][x] = "own",
               !.items.own[y][x] = ItemsOn(st.tile_at, st.items, x, y)]

\* The copy loop of generate_cave over every cell.
CopyAll(ta, it, w, h) ==
    [tile_at |-> AllRefer(w, h, "own"),
     items |-> [it EXCEPT !.own =
                   [y \in 0 .. h - 1 |-> [x \in 0 .. w - 1 |-> ItemsOn(ta, it, x, y)]]]]

\* walkable_tiles of generate_items_on_map taken over every tile, blocked
\* or not.
walkable_tiles_AnyTile(md, ta, it, w, h) ==
    {c \in Cells(w, h) : ItemsOn(ta, it, c[1], c[2]) = 0}

\* walkable_tiles of generate_items_on_map, as a set: the tiles that are not
\* blocked and hold no item.
walkable_tiles_of(md, ta, it, w, h) ==
    {c \in Cells(w, h) :
        /\ ~Tile(md[c[2]][c[1]]).blocked
        /\ ItemsOn(ta, it, c[1], c[2]) = 0}

max_items_per_tile == 1

\* The body of the inner loop for the tile at list position k: the tile is
\* copied; it is skipped when it holds an item already; otherwise it gets
\* the drawn item, unless generate_item_by_rarity drew None (k in none).
ScatterTile(st, list, k, none) ==
    LET x == list[k][1]
        y == list[k][2]
        copied == CopyTile(st, x, y)
    IN  IF ItemsOn(copied.tile_at, copied.items, x, y) >= max_items_per_tile
        THEN copied
        ELSE IF k \in none THEN copied
        ELSE [copied EXCEPT !.items = place_item_at(copied.tile_at, copied.items, x, y),
                            !.placed = @ + 1]

\* batch_tiles = walkable_tiles[i : i + batch_size], tile by tile from
\* list position k (1-based) to position last.
RECURSIVE ScatterSlice(_, _, _, _, _)
ScatterSlice(st, list, k, last, none) ==
    IF k > last \/ k > Len(list) THEN st
    ELSE ScatterSlice(ScatterTile(st, list, k, none), list, k + 1, last, none)

\* for i in range(0, items_to_generate, batch_size), with the early break.
RECURSIVE ScatterBatches(_, _, _, _, _, _)
ScatterBatches(st, list, i, itg, bs, none) ==
    IF i >= itg THEN st
    ELSE LET after == ScatterSlice(st, list, i + 1, i + bs, none)
         IN  IF after.placed >= itg THEN after
             ELSE ScatterBatches(after, list, i + bs, itg, bs, none)

\* How many entries of the shuffled list the batch loop can read.
ListReach(itg, bs) == ((itg + bs - 1) \div bs) * bs

\* The starts the shuffle can give the list: the orderings, without
\* repetition, of n of the given tiles.
RECURSIVE ShuffledHeads(_, _)
ShuffledHeads(tiles, n) ==
    IF n = 0 \/ tiles = {} THEN {<<>>}
    ELSE UNION {{<<c>> \o rest : rest \in ShuffledHeads(tiles \ {c}, n - 1)} : c \in tiles}

\* Map(tile_size, width, height): np.full stores the one CAVE_WALL object
\* in every cell.  The catalog tiles hold no items when the program starts.
InitObj ==
    /\ LoopIdle
    /\ ItemsIdle
    /\ CallIdle
    /\ LoadIdle
    /\ ScanIdle
    /\ cfg = [seed |-> "None", smoothing_iterations |-> 0, connect_regions |-> TRUE,
              add_moss |-> TRUE, add_water |-> TRUE]
    /\ smoothed = 0
    /\ map_b = <<>>
    /\ reports = <<>>
    /\ width = ObjGridSize[1]
    /\ height = ObjGridSize[2]
    /\ map_data = FullWall(width, height)
    /\ tile_at = AllRefer(width, height, CAVE_WALL)
    /\ items = [template |-> [t \in Tileset |-> 0], own |-> NoOwnItems(width, height)]
    /\ stage = "new"

\* place_item_at calls made so far.
PlaceCalls == IF call.op = "none" THEN 0 ELSE call.n

\* A call of place_item_at on a Map that is constructed or generated.
PlaceItemAt(x, y) ==
    /\ stage \in {"new", "done"}
    /\ PlaceCalls < MaxPlaced
    /\ items' = place_item_at(tile_at, items, x, y)
    /\ call' = [op |-> "place_item_at", x |-> x, y |-> y, n |-> PlaceCalls + 1]
    /\ UNCHANGED <<width, height, map_data, tile_at, stage, ret, inventory>>
    /\ UNCHANGED <<cfg, smoothed, map_b, reports, loopVars, itemVars, loadVars, regionVars>>

PlaceItemAny == \E c \in PickedCells : PlaceItemAt(c[1], c[2])

\* A new Map replaces the old one (Game.generate_map_and_cave); the catalog
\* tiles are module-level objects and live on.
NewMap ==
    /\ stage \in {"new", "done"}
    /\ call.op = "place_item_at"
    /\ map_data' = FullWall(width, height)
    /\ tile_at' = AllRefer(width, height, CAVE_WALL)
    /\ items' = [items EXCEPT !.own = NoOwnItems(width, height)]
    /\ stage' = "new"
    /\ placed_items' = 0
    /\ call' = [call EXCEPT !.op = "Map"]
    /\ UNCHANGED <<width, height, ret, inventory>>
    /\ UNCHANGED <<cfg, smoothed, map_b, reports, loopVars, loadVars, regionVars>>
    /\ UNCHANGED <<walkable_tiles, batch_start, tile_items, skipped>>

\* generate_cave up to the decoration passes: every cell is assigned the
\* catalog tile of its kind.
AssignCatalogTiles ==
    /\ stage = "new"
    /\ map_data' = ObjGrid(width, height)
    /\ tile_at' = ObjGrid(width, height)
    /\ stage' = "shared"
    /\ UNCHANGED <<width, height, items, callVars>>
    /\ UNCHANGED <<cfg, smoothed, map_b, reports, loopVars, itemVars, loadVars, regionVars>>

\* The copy loop of generate_cave.
CopyLoop ==
    /\ stage = "shared"
    /\ LET r == CopyAll(tile_at, items, width, height)
       IN  /\ tile_at' = r.tile_at
           /\ items' = r.items
    /\ stage' = "copied"
    /\ UNCHANGED <<width, height, map_data, callVars>>
    /\ UNCHANGED <<cfg, smoothed, map_b, reports, loopVars, itemVars, loadVars, regionVars>>

\* generate_items_on_map, the whole pass.
ScatterPass ==
    /\ stage = "copied"
    /\ LET itg  == items_to_generate(width, height)
           bs   == batch_size(width, height)
           free == walkable_tiles_of(map_data, tile_at, items, width, height)
           st   == [tile_at |-> tile_at, items |-> items, placed |-> 0]
       IN  IF free = {}
           THEN UNCHANGED <<tile_at, items, placed_items>>
           ELSE \E list \in ShuffledHeads(free \cap PickedCells, ListReach(itg, bs)) :
                \E none \in SUBSET (1 .. Len(list)) :
                    /\ Cardinality(none) <= MaxSkips
                    /\ LET r == ScatterBatches(st, list, 0, itg, bs, none)
                       IN  /\ tile_at' = r.tile_at
                           /\ items' = r.items
                           /\ placed_items' = r.placed
    /\ stage' = "done"
    /\ UNCHANGED <<width, height, map_data, callVars>>
    /\ UNCHANGED <<cfg, smoothed, map_b, reports, loopVars, loadVars, regionVars>>
    /\ UNCHANGED <<walkable_tiles, batch_start, tile_items, skipped>>

NextObj ==
    \/ PlaceItemAny
    \/ NewMap
    \/ AssignCatalogTiles
    \/ CopyLoop
    \/ ScatterPass

SpecObj == InitObj /\ [][NextObj]_vars

\* The scatter pass is the step from "copied" to "done".
ScatterStep == stage = "copied" /\ stage' = "done"

\* C11: in one scatter pass no tile receives more than one item, an item
\* is placed only on a tile that is not blocked and held no item when the
\* pass started, and the item list of a blocked tile is left as it was.
C11_ScatterOnePerTile ==
    [][ScatterStep =>
          \A c \in Cells(width, height) :
              LET before == ItemsOn(tile_at, items, c[1], c[2])
                  after  == ItemsOn(tile_at', items', c[1], c[2])
              IN  /\ after >= before
                  /\ after - before <= 1
                  /\ after > before =>
                         /\ ~Tile(map_data[c[2]][c[1]]).blocked
                         /\ before = 0
                  /\ Tile(map_data[c[2]][c[1]]).blocked => after = before]_vars

\* A finished pass that placed its two items, on two different tiles, one
\* of them the water tile, on a map whose wall tiles already held an item.
C11_Witness ==
    /\ stage = "done"
    /\ call.op = "Map"
    /\ placed_items = 2
    /\ ItemsOn(tile_at, items, 0, 0) = 1
    /\ ItemsOn(tile_at, items, WaterCell[1], WaterCell[2]) = 1
    /\ \E c \in PickedCells \ {WaterCell} :
           /\ ~Tile(map_data[c[2]][c[1]]).blocked
           /\ ItemsOn(tile_at, items, c[1], c[2]) = 1

\* C12: on a constructed or generated Map every cell has a tile object of
\* its own, and place_item_at(x, y, item) changes the item list of cell
\* (x, y) only: every other cell's list and the catalog tiles' lists stay
\* as they were.
C12_PlaceChangesOneCell ==
    /\ [](stage \in {"new", "done"} =>
             \A c \in Cells(width, height) : tile_at[c[2]][c[1]] = "own")
    /\ [][(call' # call /\ call'.op = "place_item_at") =>
             /\ items'.template = items.template
             /\ \A c \in Cells(width, height) :
                    c # <<call'.x, call'.y>> =>
                        ItemsOn(tile_at', items', c[1], c[2])
                            = ItemsOn(tile_at, items, c[1], c[2])]_vars

-----------------------------------------------------------------------------
(* Map.get_tile_at_xy and Map.can_move, called with any coordinate *)

\* How far outside the grid a probed coordinate may lie.
ProbeMargin == 2

\* can_move answering True outside the grid.
can_move_OpenOutside(md, w, h, x, y) ==
    IF 0 <= x /\ x < w /\ 0 <= y /\ y < h THEN ~Tile(md[y][x]).blocked ELSE TRUE

\* Map.can_move(x, y)
can_move(md, w, h, x, y) ==
    IF 0 <= x /\ x < w /\ 0 <= y /\ y < h THEN ~Tile(md[y][x]).blocked ELSE FALSE

\* One of the game's grids, with no call made yet.
InitProbe ==
    /\ GenDone
    /\ ItemsIdle
    /\ RestIdle
    /\ LoopIdle
    /\ width = VisSize
    /\ height = VisSize
    /\ map_data \in VisGrids

\* get_tile_at_xy(x, y) and can_move(x, y) are called with an integer
\* coordinate (int(x) leaves an integer as it is); both only read the grid.
ProbeAt(x, y) ==
    /\ call' = [op |-> "probe", x |-> x, y |-> y]
    /\ ret' = [get_tile_at_xy |-> get_tile_at_xy(map_data, width, height, x, y),
               can_move |-> can_move(map_data, width, height, x, y)]
    /\ UNCHANGED <<inventory, objVars, loadVars, regionVars>>
    /\ UNCHANGED <<visVars, genVars, itemVars>>

ProbeAny ==
    \E x \in 0 - ProbeMargin .. width - 1 + ProbeMargin,
       y \in 0 - ProbeMargin .. height - 1 + ProbeMargin : ProbeAt(x, y)

NextProbe == ProbeAny

SpecProbe == InitProbe /\ [][NextProbe]_vars

\* C13: outside the grid get_tile_at_xy returns None and can_move returns
\* False; inside, get_tile_at_xy returns the cell's tile and can_move is
\* True exactly when that tile is not blocked; neither call changes the grid.
C13_ProbeOutsideIsEmpty ==
    /\ [](call.op = "probe" =>
            IF InBounds(call.x, call.y, width, height)
            THEN /\ ret.get_tile_at_xy = map_data[call.y][call.x]
                 /\ ret.can_move = ~Tile(map_data[call.y][call.x]).blocked
            ELSE /\ ret.get_tile_at_xy = "None"
                 /\ ret.can_move = FALSE)
    /\ [][call' # call => map_data' = map_data]_vars

\* A probe one column left of the grid, in a row of the grid.
C13_Witness ==
    /\ call.op = "probe"
    /\ call.x = 0 - 1
    /\ call.y = Centre
    /\ ret.get_tile_at_xy = "None"
    /\ ret.can_move = FALSE

-----------------------------------------------------------------------------
(* Player.attempt_move from where a teleport has put the player *)

\* A game in progress: the first visibility update was made at the spawn
\* point, Developer.teleport then moved the player to one of its targets,
\* and the next update ran there without an exception.  One more pass of
\* the game loop is followed.
InitMove ==
    /\ GenDone
    /\ ItemsIdle
    /\ RestIdle
    /\ width = VisSize
    /\ height = VisSize
    /\ map_data \in VisGrids
    /\ is_revealed = FALSE
    /\ \E r \in 0 .. MaxRadius, target \in TeleportTargets :
           LET spawn  == [x |-> Centre, y |-> Centre, view_radius |-> r]
               first  == update_visibility_bresenham_soft(map_data, width, height,
                             {}, {}, FALSE, spawn)
               moved  == [spawn EXCEPT !.x = target[1], !.y = target[2]]
               second == update_visibility_bresenham_soft(map_data, width, height,
                             first.visible, first.explored, FALSE, moved)
           IN  /\ second.status = "ok"
               /\ player = moved
               /\ visible_map = second.visible
               /\ explored_map = second.explored
    /\ turn = "event"
    /\ frames = MaxFrames - 1
    /\ status = "ok"

NextMove == MoveAny \/ UpdateVisibility

SpecMove == InitMove /\ [][NextMove]_vars

\* C14: a player movement attempt whose target lies outside the grid ends
\* without an exception and leaves the player where it was.
C14_MoveOutsideReported ==
    [][\A dx \in -1 .. 1, dy \in -1 .. 1 :
          (/\ Move(dx, dy)
           /\ ~InBounds(player.x + dx, player.y + dy, width, height)) =>
              (status' = "ok" /\ player' = player)]_vars

\* The cells of the lines the update traces from the viewer, in the grid or
\* not: the viewer's own cell and the line to every target.
TracedCells(p) ==
    {<<p.x, p.y>>} \cup
    UNION {OnLine(p, <<p.x + d[1], p.y + d[2]>>) :
               d \in RayTargets(p.x, p.y, p.view_radius, width, height)}

\* C28: no visibility update ends in an index error, from any viewer
\* position, and right after an update every visible cell is a cell of a
\* traced line: no cell outside the grid was written through index
\* wrap-around.
C28_WritesInBoundsOnly ==
    /\ status # "IndexError"
    /\ JustUpdated => visible_map \subseteq TracedCells(player)

\* C29: in every state every visible cell is explored.
C29_VisibleImpliesExplored == visible_map \subseteq explored_map

\* After a reveal the viewer was teleported out of the grid and the update
\* took the reveal shortcut: every cell is visible, and explored.
C29_Witness ==
    /\ is_revealed
    /\ turn = "event"
    /\ frames = MaxFrames
    /\ ~InBounds(player.x, player.y, width, height)
    /\ visible_map = Cells(width, height)

-----------------------------------------------------------------------------
(* Map.connect_floor_regions with Map.flood_fill, called with its default  *)
(* argument (no progress callback)                                         *)

\* The grid of the region runs, and how many of its cells are floor.
RegionGridSize == <<4, 3>>
MaxRegionFloor == 4

\* Where the grid may hold a water tile.
RegionWater == {<<3, 0>>}

\* Grids of wall with up to MaxRegionFloor floor cells anywhere, the border
\* included, and possibly the water tile.
RegionGrids ==
    LET w == RegionGridSize[1]
        h == RegionGridSize[2]
    IN  {SetTiles(SetTiles(FullWall(w, h), F, CAVE_FLOOR), W, WATER) :
            F \in {G \in SUBSET Cells(w, h) : Cardinality(G) <= MaxRegionFloor},
            W \in {{}, RegionWater}}

\* self.map_data[y, x].tile_type == TileType.FLOOR
IsFloor(md, c) == Tile(md[c[2]][c[1]]).tile_type = "FLOOR"

\* The cell the double loop (y outer, x inner) visits i-th, from 0.
ScanCellAt(i, w) == <<i % w, i \div w>>

\* The last of the largest entries of a sequence of sizes.
np_argmax_Last(sizes) ==
    CHOOSE i \in 1 .. Len(sizes) :
        /\ \A j \in 1 .. Len(sizes) : sizes[j] <= sizes[i]
        /\ \A j \in i + 1 .. Len(sizes) : sizes[j] < sizes[i]

\* np.argmax: the first of the largest entries (1-based here).
np_argmax(sizes) ==
    CHOOSE i \in 1 .. Len(sizes) :
        /\ \A j \in 1 .. Len(sizes) : sizes[j] <= sizes[i]
        /\ \A j \in 1 .. i - 1 : sizes[j] < sizes[i]

\* The call begins: visited is all False and regions is empty.
InitRegions ==
    /\ GenDone
    /\ ItemsIdle
    /\ ObjIdle
    /\ CallIdle
    /\ LoadIdle
    /\ LoopIdle
    /\ width = RegionGridSize[1]
    /\ height = RegionGridSize[2]
    /\ map_data \in RegionGrids
    /\ scan = [pc |-> "scan", i |-> 0, visited |-> {}, regions |-> <<>>,
               queue |-> <<>>, region |-> <<>>]

RegionFrame == UNCHANGED <<width, height, loopVars, genVars, itemVars, objVars,
                           callVars, loadVars>>

\* One pass of the double loop: an unvisited floor cell seeds flood_fill
\* (the queue holds the cell, which is marked visited); any other cell is
\* passed over.
ScanCell ==
    /\ scan.pc = "scan"
    /\ scan.i < width * height
    /\ LET c == ScanCellAt(scan.i, width)
       IN  IF IsFloor(map_data, c) /\ c \notin scan.visited
           THEN scan' = [scan EXCEPT !.pc = "fill", !.queue = <<c>>,
                                     !.visited = @ \cup {c}, !.region = <<>>]
           ELSE scan' = [scan EXCEPT !.i = @ + 1]
    /\ UNCHANGED map_data
    /\ RegionFrame

\* flood_fill, one pass of `while queue`: the head is moved to the region
\* and its unvisited floor neighbours are marked and queued.
FloodStep ==
    /\ scan.pc = "fill"
    /\ scan.queue # <<>>
    /\ LET c   == Head(scan.queue)
           new == SelectSeq(get_neighbors(c[1], c[2], width, height),
                            LAMBDA n : n \notin scan.visited /\ IsFloor(map_data, n))
       IN  scan' = [scan EXCEPT !.queue = Tail(@) \o new,
                                !.region = Append(@, c),
                                !.visited = @ \cup {new[k] : k \in 1 .. Len(new)}]
    /\ UNCHANGED map_data
    /\ RegionFrame

\* flood_fill returns: the region is appended and the scan goes on.
FloodReturn ==
    /\ scan.pc = "fill"
    /\ scan.queue = <<>>
    /\ scan' = [scan EXCEPT !.pc = "scan", !.i = @ + 1,
                            !.regions = Append(@, scan.region), !.region = <<>>]
    /\ UNCHANGED map_data
    /\ RegionFrame

\* The scan is over and there is no region: the call returns.
NoRegions ==
    /\ scan.pc = "scan"
    /\ scan.i = width * height
    /\ scan.regions = <<>>
    /\ scan' = [scan EXCEPT !.pc = "done"]
    /\ UNCHANGED map_data
    /\ RegionFrame

\* The scan is over: every region but the largest is written over with
\* fresh copies of CAVE_WALL.
Reconcile ==
    /\ scan.pc = "scan"
    /\ scan.i = width * height
    /\ scan.regions # <<>>
    /\ LET region_sizes == [j \in 1 .. Len(scan.regions) |-> Len(scan.regions[j])]
           largest_region_index == np_argmax(region_sizes)
           others == UNION {{scan.regions[j][k] : k \in 1 .. Len(scan.regions[j])} :
                               j \in (1 .. Len(scan.regions)) \ {largest_region_index}}
       IN  map_data' = SetTiles(map_data, others, CAVE_WALL)
    /\ scan' = [scan EXCEPT !.pc = "done"]
    /\ RegionFrame

NextRegions == ScanCell \/ FloodStep \/ FloodReturn \/ NoRegions \/ Reconcile

\* The call runs on one thread and nothing else runs until it returns.
SpecRegions == InitRegions /\ [][NextRegions]_vars /\ WF_vars(NextRegions)

\* The cells of a region, as a set.
RegionSet(region) == {region[k] : k \in 1 .. Len(region)}

\* The double loop has visited every cell.
ScanOver == scan.pc = "scan" /\ scan.i = width * height

\* C24: when the scan is over, every floor cell is at exactly one place of
\* exactly one region, no other cell is in a region, and every region is the
\* whole 4-connected component of floor cells of any of its cells; every
\* flood fill ends and the call returns.
C24_RegionsPartitionFloor ==
    /\ [](ScanOver =>
            LET F == {c \in Cells(width, height) : IsFloor(map_data, c)}
                R == scan.regions
            IN  /\ \A c \in F :
                       Cardinality({p \in (1 .. Len(R)) \X (1 .. width * height) :
                                       p[2] <= Len(R[p[1]]) /\ R[p[1]][p[2]] = c}) = 1
                /\ \A j \in 1 .. Len(R) :
                       /\ RegionSet(R[j]) \subseteq F
                       /\ R[j] # <<>>
                       /\ \A c \in RegionSet(R[j]) : Flood(F, {c}, {c}) = RegionSet(R[j]))
    /\ (scan.pc = "fill") ~> (scan.pc = "scan")
    /\ <>(scan.pc = "done")

\* The scan is over on a grid with a water tile and has found two regions,
\* one of them of at least three cells.
C24_Witness ==
    /\ ScanOver
    /\ Len(scan.regions) = 2
    /\ \E j \in 1 .. 2 : Len(scan.regions[j]) >= 3
    /\ \E c \in RegionWater : map_data[c[2]][c[1]] = WATER

\* Where the scan first met a region.
FirstMet(region) == Raster(FirstInRaster(RegionSet(region), width), width)

\* C25: the step that ends the call leaves the grid unchanged when there is
\* no region; otherwise one region of maximum size, the one met first by
\* the scan among those, is kept cell for cell, every cell of every other
\* region is Cave Wall, every non-floor cell is unchanged, and the floor
\* cells left are that region, one 4-connected set.
C25_WallFillKeepsDominant ==
    [][(ScanOver /\ scan'.pc = "done") =>
          LET R == scan.regions
              F == {c \in Cells(width, height) : IsFloor(map_data, c)}
              G == {c \in Cells(width, height) : IsFloor(map_data', c)}
          IN  IF R = <<>> THEN map_data' = map_data
              ELSE \E d \in 1 .. Len(R) :
                      /\ \A j \in 1 .. Len(R) : Len(R[j]) <= Len(R[d])
                      /\ \A j \in (1 .. Len(R)) \ {d} :
                             Len(R[j]) = Len(R[d]) => FirstMet(R[d]) < FirstMet(R[j])
                      /\ \A j \in (1 .. Len(R)) \ {d} :
                             \A c \in RegionSet(R[j]) : map_data'[c[2]][c[1]] = CAVE_WALL
                      /\ \A c \in RegionSet(R[d]) \cup (Cells(width, height) \ F) :
                             map_data'[c[2]][c[1]] = map_data[c[2]][c[1]]
                      /\ G = RegionSet(R[d])
                      /\ SingleComponent(G)]_vars

\* The call has returned on a grid where two regions of two cells each were
\* found: the floor cells left are the first region's.
C25_Witness ==
    /\ scan.pc = "done"
    /\ Len(scan.regions) = 2
    /\ Len(scan.regions[1]) = 2
    /\ Len(scan.regions[2]) = 2
    /\ {c \in Cells(width, height) : IsFloor(map_data, c)} = RegionSet(scan.regions[1])
    /\ \E c \in RegionWater : map_data[c[2]][c[1]] = WATER

-----------------------------------------------------------------------------
(* Soft attenuation along a ray: a viewer in a flooded corridor *)

\* The view radius of the viewer in the corridor: rays long enough to pass
\* six water tiles.
RayRadius == 7

\* A corridor one cell high between two rows of wall, closed at both ends.
\* Its cells are floor or water in any mix, and at most one of them past the
\* first is left as wall or grown over with moss.
Corridor(w, row) ==
    [y \in 0 .. 2 |-> [x \in 0 .. w - 1 |->
        IF y # 1 \/ x = 0 \/ x = w - 1 THEN CAVE_WALL ELSE row[x]]]

RayGrids ==
    LET w     == RayRadius + 3
        rows  == [1 .. w - 2 -> {CAVE_FLOOR, WATER}]
        odd   == {[row EXCEPT ![j] = t] :
                     row \in rows, j \in 2 .. w - 2, t \in {CAVE_WALL, MOSSY_WALL}}
    IN  {Corridor(w, row) : row \in rows \cup odd}

\* The viewer stands at the western end of the corridor; the field of view
\* has not been computed yet.
InitRay ==
    /\ GenDone
    /\ ItemsIdle
    /\ RestIdle
    /\ width = RayRadius + 3
    /\ height = 3
    /\ map_data \in RayGrids
    /\ visible_map = {}
    /\ explored_map = {}
    /\ is_revealed = FALSE
    /\ player = [x |-> 1, y |-> 1, view_radius |-> RayRadius]
    /\ turn = "update"
    /\ frames = 0
    /\ status = "ok"

NextRay == UpdateVisibility

SpecRay == InitRay /\ [][NextRay]_vars

\* The running product of the transparencies of line[1 .. k], in
\* millionths.
RECURSIVE Attenuation(_, _, _)
Attenuation(md, line, k) ==
    IF k = 0 THEN FullVisibility
    ELSE (Attenuation(md, line, k - 1) * Tile(md[line[k][2]][line[k][1]]).transparency) \div 10

\* Every one of line[1 .. k] lets light through and the running product has
\* stayed at or above the threshold.
ClearUpTo(md, line, k) ==
    \A i \in 1 .. k :
        /\ Tile(md[line[i][2]][line[i][1]]).transparency > 1
        /\ Attenuation(md, line, i) >= MinVisibility

\* How many of line[1 .. k] are water.
WaterBefore(md, line, k) ==
    Cardinality({i \in 1 .. k : md[line[i][2]][line[i][1]] = WATER})

\* The cells of the viewer's row within the view radius, the viewer's own
\* cell excepted.
RowTargets ==
    {c \in Cells(width, height) :
        c[2] = player.y /\ c[1] # player.x /\ Dist2(c, player) <= player.view_radius * player.view_radius}

\* C22: right after an update, a target in the viewer's row is visible
\* exactly when every cell before it on its line, the viewer's included,
\* has transparency above 0.1 and the running product of transparencies has
\* stayed at or above 0.01; behind floor and water only, it is visible
\* exactly when at most 5 of those cells are water; and a wall or mossy wall
\* reached by the ray is visible itself while no cell behind it is.
C22_SoftAttenuation ==
    JustUpdated =>
        \A c \in RowTargets :
            LET line == bresenham_line(player.x, player.y, c[1], c[2])
                n    == Len(line) - 1
            IN  /\ c \in visible_map <=> ClearUpTo(map_data, line, n)
                /\ (\A i \in 1 .. n : map_data[line[i][2]][line[i][1]] \in {CAVE_FLOOR, WATER}) =>
                       (c \in visible_map <=> WaterBefore(map_data, line, n) <= 5)
                /\ \A k \in 2 .. n :
                       (/\ Tile(map_data[line[k][2]][line[k][1]]).tile_type = "WALL"
                        /\ ClearUpTo(map_data, line, k - 1)) =>
                           (line[k] \in visible_map /\ c \notin visible_map)

\* The viewer stands on floor, the next five cells are water, and the cell
\* behind them is visible; in the same state a wall further on is visible
\* too.
C22_Witness ==
    /\ JustUpdated
    /\ player.x = 1
    /\ map_data[1][1] = CAVE_FLOOR
    /\ \A x \in 2 .. 6 : map_data[1][x] = WATER
    /\ <<7, 1>> \in visible_map

-----------------------------------------------------------------------------
(* Game.init_game_elements and the generate_map_and_cave threads *)

\* Generation runs started per behaviour.
MaxRuns == 2

Runs == 1 .. MaxRuns

\* The statements of the try block of generate_map_and_cave, in order: the
\* camera, the message log, Map(...) and the seed, generate_cave, the spawn
\* point, the player, the entity list and the UI, the developer tools, and
\* the closing message with loading = False.
TrySteps == <<"camera", "message_log", "map", "generate_cave", "spawn", "player",
              "ui", "dev_tools", "begin">>

\* The finally clause leaving the flag as it found it.
finally_LeavesFlag(flag) == flag

\* The finally clause: self.loading = False.
finally_clause(flag) == FALSE

\* No run has been started.
InitLoad ==
    /\ GenDone
    /\ ItemsIdle
    /\ ObjIdle
    /\ CallIdle
    /\ ScanIdle
    /\ LoopIdle
    /\ width = 0
    /\ height = 0
    /\ map_data = <<>>
    /\ loading = FALSE
    /\ thread = [t \in Runs |-> [pc |-> "idle", raised |-> FALSE, n |-> 0]]

LoadFrame == UNCHANGED <<visVars, genVars, itemVars, objVars, callVars, regionVars>>

MainFrame == UNCHANGED <<visVars, genVars, itemVars, objVars, inventory, regionVars>>

\* Attributes of the Game object that are not None: each is assigned by one
\* statement of the try block (thread[t].n counts the statements run t has
\* completed) and none is reset before the program quits.
game_camera == \E t \in Runs : thread[t].n >= 1

game_message_log == \E t \in Runs : thread[t].n >= 2

game_map == \E t \in Runs : thread[t].n >= 3

game_player == \E t \in Runs : thread[t].n >= 6

\* The main thread has not been ended by an exception.
InGame == ret = "none"

\* The main thread reaches a call of init_game_elements only in a pass of
\* Game.run that found loading False: from render_game when there is no map,
\* or from the pause menu (Restart, or Quit to Main Menu and Start), which
\* opens on a key event that handle_game_events handled to its end.
CanStart == IF game_map THEN game_player ELSE TRUE

\* init_game_elements, on the main thread: the flag is set and a thread is
\* started for generate_map_and_cave.
init_game_elements(t) ==
    /\ thread[t].pc = "idle"
    /\ \A u \in Runs : u < t => thread[u].pc # "idle"
    /\ InGame
    /\ ~loading
    /\ CanStart
    /\ loading' = TRUE
    /\ thread' = [thread EXCEPT ![t].pc = "enter"]
    /\ LoadFrame

\* Successive main-thread calls are told apart by a one-bit count.
NextCall == IF call.op = "none" THEN 0 ELSE 1 - call.n

\* Game.run finds loading False and the GAME state renders: render_game
\* draws self.map (with no map it starts a run instead: init_game_elements).
render_game ==
    /\ InGame
    /\ ~loading
    /\ game_map
    /\ call' = [op |-> "render_game", n |-> NextCall]
    /\ UNCHANGED <<ret, loadVars, regionVars>>
    /\ MainFrame

\* A KEYDOWN event in the GAME state: handle_game_events returns at once
\* while loading; otherwise it calls self.player.handle_movement_input with
\* self.map, which is an AttributeError when there is no player.
handle_game_events ==
    /\ InGame
    /\ ~loading
    /\ thread[1].pc # "idle"
    /\ call' = [op |-> "handle_game_events", n |-> NextCall]
    /\ ret' = IF game_player THEN "none" ELSE "AttributeError"
    /\ UNCHANGED loadVars
    /\ MainFrame

\* The thread enters generate_map_and_cave: loading = True,
\* current_progress = 0.0.
Enter(t) ==
    /\ thread[t].pc = "enter"
    /\ loading' = TRUE
    /\ thread' = [thread EXCEPT ![t].pc = TrySteps[1]]
    /\ LoadFrame

\* One statement of the try block runs to its end; the last one clears the
\* flag itself.
TryStep(t) ==
    /\ \E i \in DOMAIN TrySteps :
           /\ thread[t].pc = TrySteps[i]
           /\ IF i < Len(TrySteps)
              THEN /\ thread' = [thread EXCEPT ![t].pc = TrySteps[i + 1], ![t].n = i]
                   /\ UNCHANGED loading
              ELSE /\ thread' = [thread EXCEPT ![t].pc = "finally", ![t].n = i]
                   /\ loading' = FALSE
    /\ LoadFrame

\* One statement of the try block raises an exception: control passes to
\* the except clause.
TryRaises(t) ==
    /\ \E i \in DOMAIN TrySteps : thread[t].pc = TrySteps[i]
    /\ thread' = [thread EXCEPT ![t].pc = "except", ![t].raised = TRUE]
    /\ UNCHANGED loading
    /\ LoadFrame

\* except Exception: the error is logged.
Except(t) ==
    /\ thread[t].pc = "except"
    /\ thread' = [thread EXCEPT ![t].pc = "finally"]
    /\ UNCHANGED loading
    /\ LoadFrame

\* finally: the flag is cleared and the thread ends.
Finally(t) ==
    /\ thread[t].pc = "finally"
    /\ loading' = finally_clause(loading)
    /\ thread' = [thread EXCEPT ![t].pc = "ended"]
    /\ LoadFrame

\* A step of the thread of run t.
RunStep(t) == Enter(t) \/ TryStep(t) \/ TryRaises(t) \/ Except(t) \/ Finally(t)

StartRun == \E t \in Runs : init_game_elements(t)

EnterAny == \E t \in Runs : Enter(t)

TryStepAny == \E t \in Runs : TryStep(t)

TryRaisesAny == \E t \in Runs : TryRaises(t)

ExceptAny == \E t \in Runs : Except(t)

FinallyAny == \E t \in Runs : Finally(t)

NextLoad ==
    \/ StartRun
    \/ render_game
    \/ handle_game_events
    \/ EnterAny
    \/ TryStepAny
    \/ TryRaisesAny
    \/ ExceptAny
    \/ FinallyAny

\* A started thread is scheduled again and again until it ends.
SpecLoad == InitLoad /\ [][NextLoad]_vars /\ \A t \in Runs : WF_vars(RunStep(t))

\* C15: every started generation run ends, whether or not a step raised an
\* exception; the loading flag is False when a run ends; and the flag never
\* stays True for ever.
C15_LoadingCleared ==
    /\ \A t \in Runs : (thread[t].pc # "idle") ~> (thread[t].pc = "ended")
    /\ [][\A t \in Runs :
             (thread[t].pc # "ended" /\ thread'[t].pc = "ended") => loading' = FALSE]_vars
    /\ loading ~> ~loading

\* A run has ended after an exception while the flag, set again by a
\* later run's start, had been True; the flag is False.
C15_Witness ==
    /\ thread[1].pc = "ended"
    /\ thread[1].raised
    /\ thread[2].pc # "idle"
    /\ ~loading

\* The thread of run t is alive: started and not yet ended.
Running(t) == thread[t].pc \notin {"idle", "ended"}

\* The thread of run t still has statements to run that create, fill or
\* read its map.
Generating(t) == thread[t].pc \in {"enter", "camera", "message_log", "map",
                                   "generate_cave", "spawn", "player", "ui",
                                   "dev_tools"}

\* C21: single-writer handoff.  The main loop renders the map or handles a
\* game event on it only when no generation thread is still at work on a
\* map; a generation thread is started only when no other one is alive; and
\* a thread that ends clears the loading flag only when no other run is
\* under way.
C21_SingleWriterHandoff ==
    [][/\ (render_game \/ handle_game_events) => \A t \in Runs : ~Generating(t)
       /\ \A t \in Runs :
              init_game_elements(t) => \A u \in Runs : ~Running(u)
       /\ \A t \in Runs :
              (Finally(t) /\ loading /\ ~loading') =>
                  \A u \in Runs \ {t} : ~Running(u)]_vars

\* C30: complete publication at handoff.  Whenever loading is False and
\* there is a map, there are a player, a camera and a message log as well,
\* also after a run that ended with an exception, and with a map no key
\* event in the GAME state has ended in an AttributeError.
C30_CompletePublication ==
    /\ (~loading /\ game_map) =>
           (game_player /\ game_camera /\ game_message_log)
    /\ game_map => ret # "AttributeError"

-----------------------------------------------------------------------------
(* Inventory: add_item and remove_item *)

\* max_weight of the inventory, the max_stack of the stackable item, and
\* the largest quantity a call asks for.
InvCapacity == 4
StackLimit == 3
MaxQuantity == 3

\* The items of the runs: one that stacks, one that does not.  An item's
\* stackable and max_stack attributes come with its name.
ItemNames == {"potion", "sword"}

ItemData(name) ==
    IF name = "potion" THEN [stackable |-> TRUE, max_stack |-> StackLimit]
    ELSE [stackable |-> FALSE, max_stack |-> 1]

RECURSIVE SumSeq(_)
SumSeq(q) == IF q = <<>> THEN 0 ELSE Head(q) + SumSeq(Tail(q))

\* Inventory.items is kept as name -> list of stack quantities; a name with
\* no entry in the dict has the empty list.
Held(its, name) == SumSeq(its[name])

RECURSIVE TotalOver(_, _)
TotalOver(its, names) ==
    IF names = {} THEN 0
    ELSE LET n == CHOOSE m \in names : TRUE
         IN  Held(its, n) + TotalOver(its, names \ {n})

\* available_capacity() of add_item counts every stack of every item.
current_count(its) == TotalOver(its, ItemNames)

\* The loop of add_item over the existing stacks from index i on, with
\* quantity q still to place: [stacks, ret] when the loop returns 0 from
\* inside, else the new stack is appended after the loop.
RECURSIVE AddToStacks(_, _, _, _)
AddToStacks(stacks, i, q, data) ==
    IF i > Len(stacks) THEN Append(stacks, q)
    ELSE IF data.stackable /\ stacks[i] < data.max_stack
    THEN LET amount_to_add == Min(q, data.max_stack - stacks[i])
             grown == [stacks EXCEPT ![i] = @ + amount_to_add]
         IN  IF q - amount_to_add = 0 THEN grown
             ELSE AddToStacks(grown, i + 1, q - amount_to_add, data)
    ELSE AddToStacks(stacks, i + 1, q, data)

\* Inventory.add_item(item, quantity): the inventory after the call and the
\* value returned.
add_item(inv, name, quantity) ==
    LET remaining_capacity == inv.max_weight - current_count(inv.items)
        fitted == Min(quantity, remaining_capacity)
    IN  IF remaining_capacity <= 0
        THEN [inventory |-> inv, ret |-> quantity]
        ELSE IF inv.items[name] # <<>>
        THEN [inventory |-> [inv EXCEPT !.items[name] =
                                AddToStacks(inv.items[name], 1, fitted, ItemData(name))],
              ret |-> 0]
        ELSE [inventory |-> [inv EXCEPT !.items[name] = <<fitted>>], ret |-> 0]

\* stacks.pop(i), with i counted from 1.
Pop(stacks, i) == SubSeq(stacks, 1, i - 1) \o SubSeq(stacks, i + 1, Len(stacks))

\* The loop of remove_item: enumerate(stacks) reads the list at position k
\* while the body pops from the same list, so the entry that moves into a
\* popped position is passed over.
RECURSIVE RemoveLoop(_, _, _)
RemoveLoop(stacks, k, q) ==
    IF k > Len(stacks) THEN [stacks |-> stacks, ret |-> (q = 0)]
    ELSE IF stacks[k] > q THEN [stacks |-> [stacks EXCEPT ![k] = @ - q], ret |-> TRUE]
    ELSE IF stacks[k] = q THEN [stacks |-> Pop(stacks, k), ret |-> TRUE]
    ELSE RemoveLoop(Pop(stacks, k), k + 1, q - stacks[k])

\* Inventory.remove_item(item_name, quantity): an entry left with no stack
\* is deleted from the dict (here: the empty list).
remove_item(inv, name, quantity) ==
    IF inv.items[name] = <<>>
    THEN [inventory |-> inv, ret |-> FALSE]
    ELSE LET r == RemoveLoop(inv.items[name], 1, quantity)
         IN  [inventory |-> [inv EXCEPT !.items[name] = r.stacks], ret |-> r.ret]

\* Inventory(max_weight): no items.
InitInv ==
    /\ GenDone
    /\ ItemsIdle
    /\ ObjIdle
    /\ LoadIdle
    /\ ScanIdle
    /\ LoopIdle
    /\ width = 0
    /\ height = 0
    /\ map_data = <<>>
    /\ call = [op |-> "none"]
    /\ ret = "none"
    /\ inventory = [max_weight |-> InvCapacity, items |-> [n \in ItemNames |-> <<>>]]

InvFrame == UNCHANGED <<visVars, genVars, itemVars, objVars, loadVars, regionVars>>

\* The call is recorded with the inventory it found.
AddItem(name, quantity) ==
    /\ LET r == add_item(inventory, name, quantity)
       IN  /\ inventory' = r.inventory
           /\ ret' = r.ret
    /\ call' = [op |-> "add_item", name |-> name, quantity |-> quantity,
                before |-> inventory]
    /\ InvFrame

RemoveItem(name, quantity) ==
    /\ LET r == remove_item(inventory, name, quantity)
       IN  /\ inventory' = r.inventory
           /\ ret' = r.ret
    /\ call' = [op |-> "remove_item", name |-> name, quantity |-> quantity,
                before |-> inventory]
    /\ InvFrame

AddAny == \E name \in ItemNames, quantity \in 1 .. MaxQuantity : AddItem(name, quantity)

RemoveAny == \E name \in ItemNames, quantity \in 1 .. MaxQuantity : RemoveItem(name, quantity)

NextInv == AddAny \/ RemoveAny

SpecInv == InitInv /\ [][NextInv]_vars

\* C19: add_item returns the quantity it could not add: the growth of the
\* stored total plus the returned value is the quantity asked for.
C19_AddReturnsRemainder ==
    call.op = "add_item" =>
        (current_count(inventory.items) - current_count(call.before.items)) + ret
            = call.quantity

\* C20: remove_item returns True exactly when the inventory held at least
\* the quantity of that item; then the item's stored quantity has gone down
\* by exactly the quantity, no empty stack is left and the other items are
\* as before; when it returns False the inventory is unchanged.
C20_RemoveAllOrNothing ==
    call.op = "remove_item" =>
        /\ ret = (Held(call.before.items, call.name) >= call.quantity)
        /\ ret =>
              /\ Held(inventory.items, call.name)
                     = Held(call.before.items, call.name) - call.quantity
              /\ \A i \in DOMAIN inventory.items[call.name] :
                     inventory.items[call.name][i] > 0
              /\ \A n \in ItemNames \ {call.name} :
                     inventory.items[n] = call.before.items[n]
        /\ ~ret => inventory = call.before

====
